---- MODULE Spec2Model ----
(***************************************************************************)
(* Eligibility-rule evaluation and GIS-aware filtering of program quotes  *)
(* (app/engine/eligibility_crp.py, app/main.py).                           *)
(*                                                                         *)
(* Python values are modelled with their types: a str is a sequence of     *)
(* one-character strings, so that strip, lower, split, substring search,   *)
(* str() and float() are computed, not assumed.  A float is a fixed-point  *)
(* number with FracDigits decimal digits, or nan, or +/-inf.               *)
(***************************************************************************)
EXTENDS Integers, Sequences, FiniteSets, TLC

(***************************************************************************)
(* Bounds of the model                                                     *)
(***************************************************************************)
FracDigits == 4      \* decimal digits kept by a modelled float
MaxPractices == 2    \* longest practice list of a quote response
MaxRows == 3         \* most rows of a rule sheet handed to the eligibility call
NumThreads == 2      \* request threads inside get_crp_rule_map at once
MaxId == 3           \* most ids the parcels table hands out
MaxBulk == 2         \* most parcels of one bulk request, most lines of one CSV file

RECURSIVE Pow10(_)
Pow10(d) == IF d = 0 THEN 1 ELSE 10 * Pow10(d - 1)
Scale == Pow10(FracDigits)

(***************************************************************************)
(* Python str primitives                                                   *)
(***************************************************************************)
Whitespace == {" ", "\t"}
UpperChars == <<"A","B","C","D","E","F","G","H","I","J","K","L","M",
                "N","O","P","Q","R","S","T","U","V","W","X","Y","Z">>
LowerChars == <<"a","b","c","d","e","f","g","h","i","j","k","l","m",
                "n","o","p","q","r","s","t","u","v","w","x","y","z">>
DigitChars == <<"0","1","2","3","4","5","6","7","8","9">>

LowerChar(c) ==
    IF \E i \in 1..Len(UpperChars) : UpperChars[i] = c
    THEN LowerChars[CHOOSE i \in 1..Len(UpperChars) : UpperChars[i] = c]
    ELSE c

\* str.lower()
lower(s) == [i \in 1..Len(s) |-> LowerChar(s[i])]

\* str.strip(): leading and trailing whitespace removed
strip(s) ==
    LET keep == {i \in 1..Len(s) : s[i] \notin Whitespace}
    IN IF keep = {} THEN << >>
       ELSE SubSeq(s, CHOOSE i \in keep : \A j \in keep : i <= j,
                      CHOOSE i \in keep : \A j \in keep : i >= j)

\* str.split(sep) for a one-character separator: "".split(",") is [""]
RECURSIVE split(_, _)
split(s, sep) ==
    IF \A i \in 1..Len(s) : s[i] # sep THEN <<s>>
    ELSE LET p == CHOOSE i \in 1..Len(s) :
                     s[i] = sep /\ \A j \in 1..(i - 1) : s[j] # sep
         IN <<SubSeq(s, 1, p - 1)>> \o split(SubSeq(s, p + 1, Len(s)), sep)

\* k in n  (substring test)
Contains(n, k) ==
    \E i \in 1..(Len(n) - Len(k) + 1) : SubSeq(n, i, i + Len(k) - 1) = k

IsDigit(c) == \E i \in 1..10 : DigitChars[i] = c
DigitVal(c) == (CHOOSE i \in 1..10 : DigitChars[i] = c) - 1
AllDigits(s) == \A i \in 1..Len(s) : IsDigit(s[i])

RECURSIVE DigitsToInt(_)
DigitsToInt(s) ==
    IF s = << >> THEN 0
    ELSE 10 * DigitsToInt(SubSeq(s, 1, Len(s) - 1)) + DigitVal(s[Len(s)])

RECURSIVE IntToDigits(_)
IntToDigits(n) ==
    IF n < 10 THEN <<DigitChars[n + 1]>>
    ELSE IntToDigits(n \div 10) \o <<DigitChars[(n % 10) + 1]>>

(***************************************************************************)
(* Python floats                                                           *)
(***************************************************************************)
Fin(n) == [k |-> "fin", n |-> n]       \* the float n / Scale
NaN == [k |-> "nan", n |-> 0]
Inf(sign) == [k |-> "inf", n |-> sign]

NumLt(a, b) ==
    /\ a.k # "nan" /\ b.k # "nan"
    /\ IF a.k = "inf" THEN a.n < 0 /\ ~(b.k = "inf" /\ b.n < 0)
       ELSE IF b.k = "inf" THEN b.n > 0
       ELSE a.n < b.n
NumLe(a, b) == a.k # "nan" /\ b.k # "nan" /\ (a = b \/ NumLt(a, b))
NumGt(a, b) == NumLt(b, a)
NumGe(a, b) == NumLe(b, a)

Raised == [ok |-> FALSE, num |-> NaN]       \* TypeError / ValueError
Parsed(x) == [ok |-> TRUE, num |-> x]

\* The fraction digits of a literal as a count of 1/Scale (digits past
\* FracDigits are cut: the literals of this model carry at most FracDigits).
FracToInt(f) ==
    LET d == IF Len(f) > FracDigits THEN SubSeq(f, 1, FracDigits) ELSE f
    IN DigitsToInt(d) * Pow10(FracDigits - Len(d))

\* float(s) for a str: optional sign, then nan / inf / infinity in any case
\* or a decimal literal (digits, optional point); surrounding whitespace is
\* ignored.  Exponents and digit-group underscores are outside the model.
float_of_str(s) ==
    LET t == strip(s)
        signed == Len(t) > 0 /\ t[1] \in {"+", "-"}
        sign == IF Len(t) > 0 /\ t[1] = "-" THEN -1 ELSE 1
        body == IF signed THEN Tail(t) ELSE t
        parts == split(body, ".")
    IN IF lower(body) = <<"n","a","n">> THEN Parsed(NaN)
       ELSE IF lower(body) \in {<<"i","n","f">>,
                   <<"i","n","f","i","n","i","t","y">>} THEN Parsed(Inf(sign))
       ELSE IF Len(parts) = 1 /\ parts[1] # << >> /\ AllDigits(parts[1])
            THEN Parsed(Fin(sign * DigitsToInt(parts[1]) * Scale))
       ELSE IF /\ Len(parts) = 2
               /\ AllDigits(parts[1]) /\ AllDigits(parts[2])
               /\ Len(parts[1]) + Len(parts[2]) > 0
            THEN Parsed(Fin(sign * (DigitsToInt(parts[1]) * Scale
                                    + FracToInt(parts[2]))))
       ELSE Raised

\* repr of a float: shortest decimal form with at least one fraction digit
RECURSIVE TrimZeros(_)
TrimZeros(f) ==
    IF Len(f) > 1 /\ f[Len(f)] = "0" THEN TrimZeros(SubSeq(f, 1, Len(f) - 1))
    ELSE f
PadFrac(n) ==
    LET d == IntToDigits(n)
    IN [i \in 1..(FracDigits - Len(d)) |-> "0"] \o d
\* an integral float written without its fraction, as an int would be
str_of_float_integral_short(x) ==
    IF x.k = "nan" THEN <<"n","a","n">>
    ELSE IF x.k = "inf" THEN (IF x.n < 0 THEN <<"-">> ELSE << >>) \o <<"i","n","f">>
    ELSE LET a == IF x.n < 0 THEN -x.n ELSE x.n
         IN (IF x.n < 0 THEN <<"-">> ELSE << >>)
            \o IntToDigits(a \div Scale)
            \o (IF a % Scale = 0 THEN << >>
                ELSE <<".">> \o TrimZeros(PadFrac(a % Scale)))

str_of_float(x) ==
    IF x.k = "nan" THEN <<"n","a","n">>
    ELSE IF x.k = "inf" THEN (IF x.n < 0 THEN <<"-">> ELSE << >>) \o <<"i","n","f">>
    ELSE LET a == IF x.n < 0 THEN -x.n ELSE x.n
         IN (IF x.n < 0 THEN <<"-">> ELSE << >>)
            \o IntToDigits(a \div Scale) \o <<".">>
            \o TrimZeros(PadFrac(a % Scale))

(***************************************************************************)
(* Python values held by a parcel dict or a sheet cell                     *)
(***************************************************************************)
PyNone == [t |-> "NoneType", s |-> << >>, x |-> NaN, b |-> FALSE]
PyStr(s) == [t |-> "str", s |-> s, x |-> NaN, b |-> FALSE]
PyFloat(x) == [t |-> "float", s |-> << >>, x |-> x, b |-> FALSE]
PyInt(n) == [t |-> "int", s |-> << >>, x |-> Fin(n * Scale), b |-> FALSE]
PyBool(b) == [t |-> "bool", s |-> << >>, x |-> NaN, b |-> b]

\* str(v)
str(v) ==
    CASE v.t = "NoneType" -> <<"N","o","n","e">>
      [] v.t = "str" -> v.s
      [] v.t = "float" -> str_of_float(v.x)
      [] v.t = "int" ->
            (IF v.x.n < 0 THEN <<"-">> ELSE << >>)
            \o IntToDigits((IF v.x.n < 0 THEN -v.x.n ELSE v.x.n) \div Scale)
      [] v.t = "bool" -> IF v.b THEN <<"T","r","u","e">>
                        ELSE <<"F","a","l","s","e">>

\* float(v): TypeError for None, ValueError for a str that is no number
float(v) ==
    CASE v.t = "NoneType" -> Raised
      [] v.t = "str" -> float_of_str(v.s)
      [] v.t = "float" -> Parsed(v.x)
      [] v.t = "int" -> Parsed(v.x)
      [] v.t = "bool" -> Parsed(Fin(IF v.b THEN Scale ELSE 0))

\* dict.get with a default of "" in place of None
dict_get_default_empty(d, key) == IF key \in DOMAIN d THEN d[key] ELSE PyStr(<< >>)

\* dict.get(key, None)
dict_get(d, key) == IF key \in DOMAIN d THEN d[key] ELSE PyNone

(***************************************************************************)
(* app/engine/eligibility_crp.py                                           *)
(***************************************************************************)

\* the last comparator written as the default branch
numeric_compare_default_le(op, v_num, val_num) ==
    IF op = <<">">> THEN NumGt(v_num, val_num)
    ELSE IF op = <<"<">> THEN NumLt(v_num, val_num)
    ELSE IF op = <<">","=">> THEN NumGe(v_num, val_num)
    ELSE NumLe(v_num, val_num)

\* The comparison of the four single-value numeric operators; any other
\* operator falls through to the final "return False".
numeric_compare(op, v_num, val_num) ==
    IF op = <<">">> THEN NumGt(v_num, val_num)
    ELSE IF op = <<"<">> THEN NumLt(v_num, val_num)
    ELSE IF op = <<">","=">> THEN NumGe(v_num, val_num)
    ELSE IF op = <<"<","=">> THEN NumLe(v_num, val_num)
    ELSE FALSE

\* the upper end of the range taken exclusively
between_branch_open_above(v_num, value) ==
    LET raw == split(value, ",")
        parts == [i \in 1..Len(raw) |-> strip(raw[i])]
    IN IF Len(parts) # 2 THEN FALSE
       ELSE LET lo == float_of_str(parts[1])
                hi == float_of_str(parts[2])
            IN IF ~lo.ok \/ ~hi.ok THEN FALSE
               ELSE NumLe(lo.num, v_num) /\ NumLt(v_num, hi.num)

\* The 'between' branch: value is 'min,max'
between_branch(v_num, value) ==
    LET raw == split(value, ",")
        parts == [i \in 1..Len(raw) |-> strip(raw[i])]
    IN IF Len(parts) # 2 THEN FALSE
       ELSE LET lo == float_of_str(parts[1])
                hi == float_of_str(parts[2])
            IN IF ~lo.ok \/ ~hi.ok THEN FALSE
               ELSE NumLe(lo.num, v_num) /\ NumLe(v_num, hi.num)

\* membership tested without regard to letter case
in_branch_ignore_case(v, value) ==
    LET raw == split(value, ",")
        allowed == [i \in 1..Len(raw) |-> lower(strip(raw[i]))]
    IN \E i \in 1..Len(allowed) : allowed[i] = lower(str(v))

\* The 'in' branch: string membership among the trimmed tokens
in_branch(v, value) ==
    LET raw == split(value, ",")
        allowed == [i \in 1..Len(raw) |-> strip(raw[i])]
    IN \E i \in 1..Len(allowed) : allowed[i] = str(v)

\* a parcel value that is no number read as 0.0 instead of failing
numeric_branch_zero_default(v, op, value) ==
    LET v_num == IF float(v).ok THEN float(v) ELSE Parsed(Fin(0))
    IN IF op = <<"b","e","t","w","e","e","n">> THEN between_branch(v_num.num, value)
       ELSE LET val_num == float_of_str(value)
            IN IF ~val_num.ok THEN FALSE
               ELSE numeric_compare(op, v_num.num, val_num.num)

\* The numeric operators, reached after in, == and != were not taken
numeric_branch(v, op, value) ==
    LET v_num == float(v)
    IN IF ~v_num.ok THEN FALSE
       ELSE IF op = <<"b","e","t","w","e","e","n">> THEN between_branch(v_num.num, value)
       ELSE LET val_num == float_of_str(value)
            IN IF ~val_num.ok THEN FALSE
               ELSE numeric_compare(op, v_num.num, val_num.num)

\* the operator trimmed but not lowercased before dispatch
check_condition_no_lower(parcel, field, operator, value) ==
    LET v == dict_get(parcel, field)
        op == strip(operator)
    IN IF op = <<"i","n">> THEN in_branch(v, value)
       ELSE IF op = <<"=","=">> THEN str(v) = value
       ELSE IF op = <<"!","=">> THEN str(v) # value
       ELSE numeric_branch(v, op, value)

\* check_condition(parcel, field, operator, value); value is a str, so
\* str(value) is value itself.
check_condition(parcel, field, operator, value) ==
    LET v == dict_get(parcel, field)
        op == lower(strip(operator))
    IN IF op = <<"i","n">> THEN in_branch(v, value)
       ELSE IF op = <<"=","=">> THEN str(v) = value
       ELSE IF op = <<"!","=">> THEN str(v) # value
       ELSE numeric_branch(v, op, value)

\* A DataFrame: its column labels and its rows, each row holding one cell
\* per column.  A blank cell of a sheet is read as the float nan.
DataFrame(columns, rows) == [none |-> FALSE, columns |-> columns, rows |-> rows]
df_None == [none |-> TRUE, columns |-> << >>, rows |-> << >>]

required == {<<"c","r","p","_","p","r","a","c","t","i","c","e","_","c","o","d","e">>,
            <<"f","i","e","l","d","_","n","a","m","e">>, <<"o","p","e","r","a","t","o","r">>,
            <<"v","a","l","u","e">>}

\* df.columns = [str(c).strip().lower() for c in df.columns]
normalize_columns(columns) ==
    [i \in 1..Len(columns) |-> lower(strip(str(columns[i])))]

\* str(row.get(name, "")).strip(); the labels of a sheet are distinct
row_get(cols, row, name) ==
    IF \E i \in 1..Len(cols) : cols[i] = name
    THEN strip(str(row[CHOOSE i \in 1..Len(cols) : cols[i] = name]))
    ELSE << >>

\* the new condition put in front of the code's list
setdefault_prepend(rule_map, code, cond) ==
    IF \E i \in 1..Len(rule_map) : rule_map[i].code = code
    THEN [i \in 1..Len(rule_map) |->
            IF rule_map[i].code = code
            THEN [rule_map[i] EXCEPT !.conditions = <<cond>> \o @]
            ELSE rule_map[i]]
    ELSE Append(rule_map, [code |-> code, conditions |-> <<cond>>])

\* rule_map.setdefault(code, []).append(cond): a dict keeps its keys in
\* insertion order, so a rule map is a sequence of (code, conditions).
setdefault_append(rule_map, code, cond) ==
    IF \E i \in 1..Len(rule_map) : rule_map[i].code = code
    THEN [i \in 1..Len(rule_map) |->
            IF rule_map[i].code = code
            THEN [rule_map[i] EXCEPT !.conditions = Append(@, cond)]
            ELSE rule_map[i]]
    ELSE Append(rule_map, [code |-> code, conditions |-> <<cond>>])

\* only the practice code tested for emptiness
row_incomplete_code_only(code, field, operator) == code = << >>

\* "if not code or not field or not operator: continue"
row_incomplete(code, field, operator) ==
    code = << >> \/ field = << >> \/ operator = << >>

RECURSIVE build_rows(_, _, _)
build_rows(cols, rows, rule_map) ==
    IF rows = << >> THEN rule_map
    ELSE LET row == Head(rows)
             code == row_get(cols, row,
                         <<"c","r","p","_","p","r","a","c","t","i","c","e","_","c","o","d",
                         "e">>)
             field == row_get(cols, row, <<"f","i","e","l","d","_","n","a","m","e">>)
             operator == row_get(cols, row, <<"o","p","e","r","a","t","o","r">>)
             value == row_get(cols, row, <<"v","a","l","u","e">>)
             cond == [field |-> field, operator |-> operator, value |-> value]
         IN IF row_incomplete(code, field, operator)
            THEN build_rows(cols, Tail(rows), rule_map)
            ELSE build_rows(cols, Tail(rows),
                            setdefault_append(rule_map, code, cond))

\* the rows loaded without the test for the required columns
build_crp_rule_map_no_schema_check(df) ==
    IF df.none THEN << >>
    ELSE build_rows(normalize_columns(df.columns), df.rows, << >>)

build_crp_rule_map(df) ==
    IF df.none THEN << >>
    ELSE LET cols == normalize_columns(df.columns)
         IN IF ~(required \subseteq {cols[i] : i \in 1..Len(cols)}) THEN << >>
            ELSE build_rows(cols, df.rows, << >>)

\* any() in place of all()
any_condition(parcel, conditions) ==
    \E i \in 1..Len(conditions) :
        check_condition(parcel, conditions[i].field,
                        conditions[i].operator, conditions[i].value)

\* all(check_condition(parcel, c["field"], c["operator"], c["value"]) ...)
all_conditions(parcel, conditions) ==
    \A i \in 1..Len(conditions) :
        check_condition(parcel, conditions[i].field,
                        conditions[i].operator, conditions[i].value)

RECURSIVE eligible_loop(_, _)
eligible_loop(parcel, items) ==
    IF items = << >> THEN << >>
    ELSE (IF all_conditions(parcel, Head(items).conditions)
          THEN <<Head(items).code>> ELSE << >>)
         \o eligible_loop(parcel, Tail(items))

eligible_crp_practices(parcel, rule_map) ==
    IF rule_map = << >> THEN << >> ELSE eligible_loop(parcel, rule_map)

(***************************************************************************)
(* app/main.py: GIS-based filtering of program practices                   *)
(***************************************************************************)
any_keyword(name, keywords) ==
    LET n == lower(name)
    IN \E i \in 1..Len(keywords) : Contains(n, keywords[i])

_is_wetland_like_name(name) == any_keyword(name, (<<<<"w","e","t","l","a","n","d">>,
            <<"m","a","r","s","h">>, <<"b","o","g">>,
            <<"f","l","o","o","d","p","l","a","i","n">>, <<"r","i","p","a","r","i","a","n">>,
            <<"s","t","r","e","a","m"," ","b","u","f","f","e","r">>>>))
_is_erosion_like_name(name) == any_keyword(name, (<<<<"e","r","o","s","i","o","n">>,
            <<"g","u","l","l","y">>, <<"t","e","r","r","a","c","e">>,
            <<"w","a","t","e","r","w","a","y">>,
            <<"g","r","a","d","e"," ","s","t","a","b","i","l","i","z","a","t","i","o","n">>,
            <<"d","i","v","e","r","s","i","o","n">>>>))

\* A quote response (CrpQuoteResponse, EqipQuoteResponse, CspQuoteResponse)
QuoteResponse(state, county, acres, practices) ==
    [none |-> FALSE, state |-> state, county |-> county, acres |-> acres,
     practices |-> practices]
response_None ==
    [none |-> TRUE, state |-> << >>, county |-> << >>, acres |-> NaN,
     practices |-> << >>]

\* The parcel dict filter_crp_by_gis hands to the rules
rules_parcel(crp, gis) ==
    (<<"s","t","a","t","e">> :> PyStr(crp.state))
    @@ (<<"c","o","u","n","t","y">> :> PyStr(crp.county))
    @@ (<<"a","c","r","e","s">> :> PyFloat(crp.acres))
    @@ (<<"l","a","n","d","_","c","o","v","e","r">> :> PyStr(gis.land_cover))
    @@ (<<"s","l","o","p","e","_","p","e","r","c","e","n","t">> :> PyFloat(gis.slope_percent))
    @@ (<<"h","y","d","r","i","c","_","p","e","r","c","e","n",
                "t">> :> PyFloat(gis.hydric_percent))
    @@ (<<"n","w","i","_","c","l","a","s","s">> :> PyStr(gis.nwi_class))
    @@ (<<"i","n","_","1","0","0","y","r","_","f","l","o","o","d","p","l","a","i",
                "n">> :> PyBool(gis.in_100yr_floodplain))
    @@ (<<"d","i","s","t","a","n","c","e","_","t","o","_","s","t","r","e","a","m","_",
                "m">> :> PyFloat(gis.distance_to_stream_m))

\* the comparison made without lowercasing the land cover
is_developed_case_sensitive(gis) == gis.land_cover = <<"d","e","v","e","l","o","p","e","d">>

is_developed(gis) == lower(gis.land_cover) = <<"d","e","v","e","l","o","p","e","d">>

\* the hydric threshold taken inclusively
dry_upland_inclusive(gis) ==
    gis.nwi_class = <<"N","O","N","E">> /\ NumLe(gis.hydric_percent, Fin(20 * Scale))

\* dry_upland = (gis.nwi_class == "NONE") and (gis.hydric_percent < 20.0)
dry_upland(gis) ==
    gis.nwi_class = <<"N","O","N","E">> /\ NumLt(gis.hydric_percent, Fin(20 * Scale))

\* only the codes the rule map knows are filtered
rule_step_drops_known_only(p, rule_map, eligible_codes) ==
    /\ rule_map # << >>
    /\ Len(eligible_codes) > 0
    /\ \E i \in 1..Len(rule_map) : rule_map[i].code = p.crp_practice_code
    /\ \A i \in 1..Len(eligible_codes) : eligible_codes[i] # p.crp_practice_code

\* an empty eligible list of a non-empty rule map filters everything out
rule_step_drops_strict(p, rule_map, eligible_codes) ==
    /\ rule_map # << >>
    /\ \A i \in 1..Len(eligible_codes) : eligible_codes[i] # p.crp_practice_code

\* "if eligible_codes is not None and len(eligible_codes) > 0:
\*      if p.crp_practice_code not in eligible_codes: continue"
\* eligible_codes is None exactly when the rule map is empty.
rule_step_drops(p, rule_map, eligible_codes) ==
    /\ rule_map # << >>
    /\ Len(eligible_codes) > 0
    /\ \A i \in 1..Len(eligible_codes) : eligible_codes[i] # p.crp_practice_code

\* "if dry_upland and _is_wetland_like_name(name): continue"
crp_heuristic_drops(p, gis) ==
    dry_upland(gis) /\ _is_wetland_like_name(p.crp_practice_name)

\* survivors prepended instead of appended
RECURSIVE crp_loop_prepend(_, _, _, _)
crp_loop_prepend(practices, gis, rule_map, eligible_codes) ==
    IF practices = << >> THEN << >>
    ELSE LET p == Head(practices)
             rest == crp_loop_prepend(Tail(practices), gis, rule_map,
                                      eligible_codes)
         IN IF rule_step_drops(p, rule_map, eligible_codes) THEN rest
            ELSE IF crp_heuristic_drops(p, gis) THEN rest
            ELSE rest \o <<p>>

RECURSIVE crp_loop(_, _, _, _)
crp_loop(practices, gis, rule_map, eligible_codes) ==
    IF practices = << >> THEN << >>
    ELSE LET p == Head(practices)
             rest == crp_loop(Tail(practices), gis, rule_map, eligible_codes)
         IN IF rule_step_drops(p, rule_map, eligible_codes) THEN rest
            ELSE IF crp_heuristic_drops(p, gis) THEN rest
            ELSE <<p>> \o rest

\* an empty rule map taken to mean that no practice is eligible
filter_crp_by_gis_rules_required(crp, gis, rule_map) ==
    IF crp.none THEN crp
    ELSE IF is_developed(gis) \/ rule_map = << >>
         THEN QuoteResponse(crp.state, crp.county, crp.acres, << >>)
    ELSE QuoteResponse(crp.state, crp.county, crp.acres,
                       crp_loop(crp.practices, gis, rule_map,
                                eligible_crp_practices(rules_parcel(crp, gis),
                                                       rule_map)))

\* filter_crp_by_gis(crp, gis), with rule_map the map get_crp_rule_map()
\* returned to it
filter_crp_by_gis(crp, gis, rule_map) ==
    IF crp.none THEN crp
    ELSE IF is_developed(gis)
         THEN QuoteResponse(crp.state, crp.county, crp.acres, << >>)
    ELSE LET parcel == rules_parcel(crp, gis)
             eligible_codes == IF rule_map # << >>
                               THEN eligible_crp_practices(parcel, rule_map)
                               ELSE << >>
         IN QuoteResponse(crp.state, crp.county, crp.acres,
                          crp_loop(crp.practices, gis, rule_map, eligible_codes))

\* has_wet_signal = (gis.nwi_class != "NONE") or (gis.hydric_percent >= 20.0)
has_wet_signal(gis) ==
    gis.nwi_class # <<"N","O","N","E">> \/ NumGe(gis.hydric_percent, Fin(20 * Scale))

\* low_slope = gis.slope_percent < 2.0
low_slope(gis) == NumLt(gis.slope_percent, Fin(2 * Scale))

eqip_drops(p, gis) ==
    \/ _is_wetland_like_name(p.scenario_name) /\ ~has_wet_signal(gis)
    \/ _is_erosion_like_name(p.scenario_name) /\ low_slope(gis)

\* the kept practices collected last-first
RECURSIVE eqip_loop_reversed(_, _)
eqip_loop_reversed(practices, gis) ==
    IF practices = << >> THEN << >>
    ELSE IF eqip_drops(Head(practices), gis)
         THEN eqip_loop_reversed(Tail(practices), gis)
    ELSE eqip_loop_reversed(Tail(practices), gis) \o <<Head(practices)>>

RECURSIVE eqip_loop(_, _)
eqip_loop(practices, gis) ==
    IF practices = << >> THEN << >>
    ELSE IF eqip_drops(Head(practices), gis) THEN eqip_loop(Tail(practices), gis)
    ELSE <<Head(practices)>> \o eqip_loop(Tail(practices), gis)

filter_eqip_by_gis(eqip, gis) ==
    IF eqip.none THEN eqip
    ELSE QuoteResponse(eqip.state, eqip.county, eqip.acres,
                       eqip_loop(eqip.practices, gis))

csp_has_wet_signal(gis) ==
    gis.nwi_class # <<"N","O","N","E">> \/ NumGe(gis.hydric_percent, Fin(20 * Scale))

\* the slope threshold taken inclusively
csp_low_slope_inclusive(gis) == NumLe(gis.slope_percent, Fin(2 * Scale))

csp_low_slope(gis) == NumLt(gis.slope_percent, Fin(2 * Scale))

csp_drops(p, gis) ==
    \/ _is_wetland_like_name(p.scenario_name) /\ ~csp_has_wet_signal(gis)
    \/ _is_erosion_like_name(p.scenario_name) /\ csp_low_slope(gis)

RECURSIVE csp_loop(_, _)
csp_loop(practices, gis) ==
    IF practices = << >> THEN << >>
    ELSE IF csp_drops(Head(practices), gis) THEN csp_loop(Tail(practices), gis)
    ELSE <<Head(practices)>> \o csp_loop(Tail(practices), gis)

filter_csp_by_gis(csp, gis) ==
    IF csp.none THEN csp
    ELSE QuoteResponse(csp.state, csp.county, csp.acres,
                       csp_loop(csp.practices, gis))

(***************************************************************************)
(* app/main.py: the cached rule map                                        *)
(***************************************************************************)
VARIABLES
    rule_sheet,       \* what CRP_RULES_SHEET of the workbook on disk holds
    _crp_rule_map,    \* the module-level cache: None until first loaded
    call,             \* the last call made and what it returned
    threads,          \* each request thread's place in get_crp_rule_map
    reads,            \* how many times the pd.read_excel statement has run
    builds,           \* how many times build_crp_rule_map has been called
    parcels,          \* the rows of the parcels table
    sqlite_sequence   \* the largest id AUTOINCREMENT has handed out

vars ==
    <<rule_sheet, _crp_rule_map, call, threads, reads, builds, parcels,
      sqlite_sequence>>

thread_vars == <<threads, reads, builds>>

store_vars == <<parcels, sqlite_sequence>>

cache_None == [is_none |-> TRUE, map |-> << >>]
cache_of(rule_map) == [is_none |-> FALSE, map |-> rule_map]

\* A sheet that cannot be read makes pd.read_excel raise
unreadable_sheet == [readable |-> FALSE, df |-> df_None]
readable_sheet(df) == [readable |-> TRUE, df |-> df]

\* every name resolves, as if the module imported what it uses
name_bound_any(name) == TRUE

\* the lookup of a global name that get_crp_rule_map does not assign
name_bound(name) == name \in ({"os", "sqlite3", "csv", "StringIO", "List", "Optional", "Tuple",
            "FastAPI", "HTTPException", "Query", "UploadFile", "File", "Response", "BaseModel",
            "Field", "fetch_terrain", "EqipQuoteResponse", "CrpQuoteResponse",
            "CspQuoteResponse", "quote_eqip", "quote_crp", "list_crp_counties_for_state",
            "quote_csp", "process_parcel_geometry", "build_crp_rule_map",
            "eligible_crp_practices"})

\* "pd.read_excel(CRP_MASTER_XLSX, sheet_name=CRP_RULES_SHEET)" inside the
\* try: pd is looked up first (NameError when unbound), then the workbook is
\* opened, which fails when the sheet is not there or the read goes wrong
read_rule_sheet(sheet, io_ok) ==
    IF name_bound("pd") /\ sheet.readable /\ io_ok
    THEN [raised |-> FALSE, df |-> sheet.df]
    ELSE [raised |-> TRUE, df |-> df_None]

\* get_crp_rule_map(): the map it returns and the cache it leaves
get_crp_rule_map(cache, sheet, io_ok) ==
    IF ~cache.is_none THEN [ret |-> cache.map, cache |-> cache]
    ELSE IF read_rule_sheet(sheet, io_ok).raised
    THEN [ret |-> << >>, cache |-> cache_of(<< >>)]
    ELSE [ret |-> build_crp_rule_map(read_rule_sheet(sheet, io_ok).df),
          cache |-> cache_of(build_crp_rule_map(
                                 read_rule_sheet(sheet, io_ok).df))]

\* filter_crp_by_gis reaches get_crp_rule_map() only past its early returns
crp_fetches_rules(crp, gis) == ~crp.none /\ ~is_developed(gis)

(***************************************************************************)
(* Float arithmetic                                                        *)
(***************************************************************************)
\* abs(x)
float_abs(x) ==
    IF x.k = "fin" THEN Fin(IF x.n < 0 THEN -x.n ELSE x.n)
    ELSE IF x.k = "inf" THEN Inf(1) ELSE NaN

\* x + y
float_add(x, y) ==
    IF x.k = "nan" \/ y.k = "nan" THEN NaN
    ELSE IF x.k = "inf" THEN (IF y.k = "inf" /\ y.n # x.n THEN NaN ELSE x)
    ELSE IF y.k = "inf" THEN y
    ELSE Fin(x.n + y.n)

\* x * y; products of operands with at most two decimals are formed in
\* hundredths, which keeps them inside the machine integers
float_mul(x, y) ==
    IF x.k = "nan" \/ y.k = "nan" THEN NaN
    ELSE IF x.k = "inf" \/ y.k = "inf"
         THEN (IF x.n = 0 \/ y.n = 0 THEN NaN
               ELSE Inf(IF (x.n < 0) = (y.n < 0) THEN 1 ELSE -1))
    ELSE LET u == Scale \div 100
         IN IF x.n % u = 0 /\ y.n % u = 0
            THEN Fin(((x.n \div u) * (y.n \div u)) * (Scale \div 10000))
            ELSE Fin((x.n * y.n) \div Scale)

\* x / y for y # 0, by long division (digits past FracDigits are cut)
RECURSIVE frac_digits(_, _, _)
frac_digits(r, b, d) ==
    IF d = 0 THEN 0
    ELSE ((r * 10) \div b) * Pow10(d - 1) + frac_digits((r * 10) % b, b, d - 1)

float_div(x, y) ==
    IF x.k = "nan" \/ y.k = "nan" THEN NaN
    ELSE IF x.k = "inf" THEN (IF y.k = "inf" THEN NaN
                              ELSE Inf(IF (x.n < 0) = (y.n < 0) THEN 1 ELSE -1))
    ELSE IF y.k = "inf" THEN Fin(0)
    ELSE LET a == IF x.n < 0 THEN -x.n ELSE x.n
             b == IF y.n < 0 THEN -y.n ELSE y.n
             q == (a \div b) * Scale + frac_digits(a % b, b, FracDigits)
         IN Fin(IF (x.n < 0) = (y.n < 0) THEN q ELSE -q)

\* x % m for a whole number m > 0: the result has the sign of m
float_mod(x, m) == IF x.k = "fin" THEN Fin(x.n % (m * Scale)) ELSE NaN

\* round(x, ndigits): to the nearest, ties to the even digit
round(x, ndigits) ==
    IF x.k # "fin" THEN x
    ELSE LET unit == Scale \div Pow10(ndigits)
             a == IF x.n < 0 THEN -x.n ELSE x.n
             q == a \div unit
             r == a % unit
             up == 2 * r > unit \/ (2 * r = unit /\ q % 2 = 1)
             m == (IF up THEN q + 1 ELSE q) * unit
         IN Fin(IF x.n < 0 THEN -m ELSE m)

(***************************************************************************)
(* engine/gis_processor.py                                                 *)
(***************************************************************************)
\* A geometry: kind "dict" is {"lat": a, "lon": b}, "pair" is [a, b],
\* "point" is {"type": "Point", "coordinates": [a, b]}, "wkt" is the str s,
\* and "other" is anything else
Geometry(kind, a, b, s) == [kind |-> kind, a |-> a, b |-> b, s |-> s]

\* str.split(): the runs of characters between whitespace
RECURSIVE split_ws(_)
split_ws(s) ==
    IF strip(s) = << >> THEN << >>
    ELSE LET t == strip(s)
             stop == IF \E i \in 1..Len(t) : t[i] \in Whitespace
                     THEN CHOOSE i \in 1..Len(t) :
                            t[i] \in Whitespace /\ \A j \in 1..(i - 1) : t[j] \notin Whitespace
                     ELSE Len(t) + 1
         IN <<SubSeq(t, 1, stop - 1)>> \o split_ws(SubSeq(t, stop, Len(t)))

\* "return float(...), float(...)" inside try, "return None, None" in except
point_or_none(lat, lon) ==
    IF lat.ok /\ lon.ok
    THEN [lat |-> PyFloat(lat.num), lon |-> PyFloat(lon.num)]
    ELSE [lat |-> PyNone, lon |-> PyNone]

\* the pair (lat, lon), or (None, None)
_parse_point_from_geom(parcel_geom) ==
    LET body == split_ws(SubSeq(parcel_geom.s, 7, Len(parcel_geom.s) - 1))
        found ==
            CASE parcel_geom.kind = "pair" ->
                    [lat |-> parcel_geom.b, lon |-> parcel_geom.a]
              [] parcel_geom.kind = "dict" ->
                    [lat |-> parcel_geom.a, lon |-> parcel_geom.b]
              [] parcel_geom.kind = "point" ->
                    [lat |-> parcel_geom.b, lon |-> parcel_geom.a]
              [] parcel_geom.kind = "wkt"
                 /\ Len(parcel_geom.s) >= 6
                 /\ lower(SubSeq(parcel_geom.s, 1, 6)) = <<"p","o","i","n","t","(">>
                 /\ Len(body) = 2 ->
                    [lat |-> PyStr(body[2]), lon |-> PyStr(body[1])]
              [] OTHER -> [lat |-> PyNone, lon |-> PyNone]
    IN point_or_none(float(found.lat), float(found.lon))

\* every other state classified as developed land
_classify_land_cover_default_developed(state, county, lat) ==
    IF Contains(lower(state), <<"m","i","c","h","i","g","a","n">>)
    THEN <<"f","o","r","e","s","t">>
    ELSE <<"d","e","v","e","l","o","p","e","d">>

_classify_land_cover(state, county, lat) ==
    LET s == lower(state)
    IN IF Contains(s, <<"m","i","c","h","i","g","a","n">>)
       THEN IF /\ lat.t = "float"
               /\ lat.x # Fin(0)
               /\ NumGt(lat.x, Fin(445 * (Scale \div 10)))
            THEN <<"f","o","r","e","s","t">>
            ELSE <<"m","i","x","e","d","_","a","g","r","i","c","u","l","t","u","r","e">>
       ELSE IF \/ Contains(s, <<"i","o","w","a">>)
               \/ Contains(s, <<"i","l","l","i","n","o","i","s">>)
            THEN <<"c","r","o","p","l","a","n","d">>
       ELSE IF Contains(s, <<"t","e","x","a","s">>)
            THEN <<"r","a","n","g","e","l","a","n","d">>
       ELSE <<"c","r","o","p","l","a","n","d">>

\* the base slope taken as 1.0
_estimate_slope_percent_base_one(lat, lon, state) ==
    IF lat.t = "NoneType" \/ lon.t = "NoneType" THEN Fin(Scale)
    ELSE float_add(Fin(Scale), float_mod(float_abs(lon.x), 3))

_estimate_slope_percent(lat, lon, state) ==
    IF lat.t = "NoneType" \/ lon.t = "NoneType" THEN Fin(2 * Scale)
    ELSE LET base == IF lower(state) \in
                          {<<"c","o","l","o","r","a","d","o">>,
                           <<"m","o","n","t","a","n","a">>,
                           <<"u","t","a","h">>,
                           <<"w","y","o","m","i","n","g">>}
                     THEN Fin(8 * Scale) ELSE Fin(2 * Scale)
         IN float_add(base, float_mod(float_abs(lon.x), 3))

\* ord(c) for a letter, a digit or a space
ord(c) ==
    IF \E i \in 1..26 : LowerChars[i] = c
    THEN 96 + (CHOOSE i \in 1..26 : LowerChars[i] = c)
    ELSE IF \E i \in 1..26 : UpperChars[i] = c
    THEN 64 + (CHOOSE i \in 1..26 : UpperChars[i] = c)
    ELSE IF \E i \in 1..10 : DigitChars[i] = c
    THEN 47 + (CHOOSE i \in 1..10 : DigitChars[i] = c)
    ELSE 32

RECURSIVE sum_ord(_)
sum_ord(key) == IF key = << >> THEN 0 ELSE ord(Head(key)) + sum_ord(Tail(key))

_estimate_hydric_percent(state, county) ==
    Fin((sum_ord(lower(state \o county)) % 60) * Scale)

_classify_nwi(lat, hydric) ==
    IF NumGt(hydric, Fin(40 * Scale)) THEN <<"P","E","M","1","A">>
    ELSE IF NumGt(hydric, Fin(20 * Scale)) THEN <<"P","U","B","H">>
    ELSE <<"N","O","N","E">>

_estimate_floodplain(hydric, slope) ==
    NumGt(hydric, Fin(35 * Scale)) /\ NumLt(slope, Fin(4 * Scale))

_estimate_distance_to_stream_m(lat, lon) ==
    IF lat.t = "NoneType" \/ lon.t = "NoneType" THEN Fin(500 * Scale)
    ELSE float_add(Fin(100 * Scale),
                   float_mod(float_abs(float_mul(lat.x, lon.x)), 900))

\* the dict process_parcel_geometry returns, from the point parsed and the
\* slope and hydric estimates made for it
gis_dict(point, slope, hydric, state, county) ==
    [lat |-> point.lat, lon |-> point.lon,
     land_cover |-> _classify_land_cover(state, county, point.lat),
     slope_percent |-> round(slope, 1),
     hydric_percent |-> round(hydric, 1),
     nwi_class |-> _classify_nwi(point.lat, hydric),
     in_100yr_floodplain |-> _estimate_floodplain(hydric, slope),
     distance_to_stream_m |->
         round(_estimate_distance_to_stream_m(point.lat, point.lon), 1)]

\* the estimates made at a point
estimates_at(point, state, county) ==
    gis_dict(point, _estimate_slope_percent(point.lat, point.lon, state),
             _estimate_hydric_percent(state, county), state, county)

process_parcel_geometry(parcel_geom, state, county) ==
    estimates_at(_parse_point_from_geom(parcel_geom), state, county)

(***************************************************************************)
(* Inputs the operations are exercised on                                  *)
(***************************************************************************)

\* sequences over S of length at most n
RECURSIVE SeqsUpTo(_, _)
SeqsUpTo(S, n) ==
    IF n = 0 THEN {<< >>}
    ELSE LET shorter == SeqsUpTo(S, n - 1)
         IN shorter \cup {Append(q, x) : q \in shorter, x \in S}

F(tenths) == Fin(tenths * (Scale \div 10))     \* the float tenths / 10

\* Rows of a rule sheet: crp_practice_code, field_name, operator, value
RuleRow(code, field, operator, value) ==
    <<PyStr(code), PyStr(field), PyStr(operator), value>>

\* The rule sheets the process may find on disk
RuleSheets ==
    { unreadable_sheet,
      readable_sheet(DataFrame(
          <<PyStr(<<"c","r","p","_","p","r","a","c","t","i","c","e","_","c","o","d","e">>),
                      PyStr(<<"f","i","e","l","d","_","n","a","m","e">>),
                      PyStr(<<"o","p","e","r","a","t","o","r">>)>>,
          <<<<PyStr(<<"C","P","1">>), PyStr(<<"l","a","n","d","_","c","o","v","e","r">>),
                      PyStr(<<"i","n">>)>>>>)),
      readable_sheet(DataFrame(
          <<PyStr(<<"C","R","P","_","P","r","a","c","t","i","c","e","_","C","o","d","e">>),
                      PyStr(<<" ","F","i","e","l","d","_","N","a","m","e">>),
                      PyStr(<<"O","p","e","r","a","t","o","r"," ">>),
                      PyStr(<<"V","A","L","U","E">>)>>,
          <<RuleRow(<<"C","P","1">>, <<"l","a","n","d","_","c","o","v","e","r">>, <<"i","n">>,
                      PyStr(<<"c","r","o","p","l","a","n","d",","," ","p","a","s","t","u","r",
                      "e">>)),
            RuleRow(<<"C","P","1">>, <<"s","l","o","p","e","_","p","e","r","c","e","n","t">>,
                        <<"<","=">>, PyInt(8)),
            RuleRow(<<"C","P","2">>, <<"n","w","i","_","c","l","a","s","s">>, <<"!","=">>,
                        PyStr(<<"N","O","N","E">>))>>)),
      readable_sheet(DataFrame(
          (<<PyStr(<<"c","r","p","_","p","r","a","c","t","i","c","e","_","c","o","d","e">>),
                      PyStr(<<"f","i","e","l","d","_","n","a","m","e">>),
                      PyStr(<<"o","p","e","r","a","t","o","r">>),
                      PyStr(<<"v","a","l","u","e">>)>>),
          <<RuleRow(<<"C","P","2">>,
                      <<"h","y","d","r","i","c","_","p","e","r","c","e","n","t">>,
                      <<"b","e","t","w","e","e","n">>, PyStr(<<"2","0",",","1","0","0">>)),
            RuleRow(<<"C","P","3">>, <<"l","a","n","d","_","c","o","v","e","r">>, << >>,
                        PyStr(<<"c","r","o","p","l","a","n","d">>))>>)) }

\* GIS records with the given land covers and slopes, dry and wet
GISRecords(land_covers, slopes) ==
    { [lat |-> PyFloat(F(420)), lon |-> PyFloat(F(-935)),
       land_cover |-> lc, slope_percent |-> sl, hydric_percent |-> hy,
       nwi_class |-> nwi, in_100yr_floodplain |-> FALSE,
       distance_to_stream_m |-> F(2500)] :
        lc \in land_covers, sl \in slopes,
        hy \in {F(100), F(200)}, nwi \in {<<"N","O","N","E">>, <<"P","E","M","1","A">>} }

CrpPractice(code, name, rate) ==
    [crp_practice_code |-> code, crp_practice_name |-> name,
     base_rental_rate |-> F(rate), annual_payment |-> F(rate * 40),
     total_contract_payment |-> F(rate * 400)]

\* EqipPracticeQuote and CspPracticeQuote have the same fields
ScenarioQuote(code, name, rate) ==
    [practice_code |-> code, scenario_code |-> code \o <<"-","1">>,
     scenario_name |-> name, unit |-> <<"a","c">>,
     payment_type |-> <<"P","R">>, unit_rate |-> F(rate),
     payment_basis |-> <<"p","e","r","_","a","c","r","e">>,
     payment_per_acre |-> F(rate), annual_payment |-> F(rate * 40),
     total_contract_payment |-> F(rate * 40), contract_years |-> 1]

\* Places a quote is asked for: state, county, latitude, longitude
Places ==
    { [state |-> st.state, county |-> st.county, lat |-> lat, lon |-> lon] :
        st \in { [state |-> <<"I","A">>, county |-> <<"S","t","o","r","y">>],
                 [state |-> <<"M","i","c","h","i","g","a","n">>,
                             county |-> <<"K","e","n","t">>],
                 [state |-> <<"C","o","l","o","r","a","d","o">>,
                             county |-> <<"B","o","u","l","d","e","r">>],
                 [state |-> <<"T","e","x","a","s">>, county |-> <<"T","r","a","v","i","s">>] },
        lat \in {F(420), F(450)},
        lon \in {F(-935), F(-900), NaN, Inf(-1)} }

(***************************************************************************)
(* The state machine: each action is one call                              *)
(***************************************************************************)
no_call == [op |-> "none"]

Threads == 1..NumThreads

\* a thread that is not inside get_crp_rule_map
idle_thread ==
    [pc |-> "idle", df |-> df_None, i |-> 0, rule_map |-> << >>, ret |-> << >>]

Init ==
    /\ rule_sheet \in RuleSheets
    /\ _crp_rule_map = cache_None
    /\ call = no_call
    /\ threads = [t \in Threads |-> idle_thread]
    /\ reads = 0
    /\ builds = 0
    /\ parcels = {}
    /\ sqlite_sequence = 0

CheckCondition ==
    /\ call = no_call
    /\ \E parcel \in ({ << >>,
                (<<"l","a","n","d","_","c","o","v","e","r">> :> PyStr(<<"c","r","o","p","l","a",
                "n","d">>)) @@ (<<"s","l","o","p","e","_","p","e","r","c","e","n",
                "t">> :> PyFloat(F(80))),
                (<<"l","a","n","d","_","c","o","v","e","r">> :> PyStr(<<"C","r","o","p","l","a",
                "n","d">>)) @@ (<<"s","l","o","p","e","_","p","e","r","c","e","n",
                "t">> :> PyInt(8)),
                (<<"l","a","n","d","_","c","o","v","e","r">> :> PyStr(<<"c","r","o","p","l","a",
                "n","d">>)) @@ (<<"s","l","o","p","e","_","p","e","r","c","e","n",
                "t">> :> PyFloat(F(100))),
                (<<"l","a","n","d","_","c","o","v","e","r">> :> PyBool(TRUE)) @@ (<<"s","l","o",
                "p","e","_","p","e","r","c","e","n","t">> :> PyStr(<<"s","t","e","e","p">>)),
                (<<"l","a","n","d","_","c","o","v","e","r">> :> PyStr(<<" ","p","a","s","t","u",
                "r","e">>)) @@ (<<"s","l","o","p","e","_","p","e","r","c","e","n",
                "t">> :> PyFloat(Fin(8 * Scale + Scale \div 10000))) }),
                field \in ({<<"l","a","n","d","_","c","o","v","e","r">>,
                <<"s","l","o","p","e","_","p","e","r","c","e","n","t">>, <<"z","o","n","e">>}),
       operator \in ({<<"i","n">>, <<" ","I","N"," ">>, <<"=","=">>, <<"!","=">>,
                   <<"b","e","t","w","e","e","n">>, <<"B","e","t","w","e","e","n">>, <<">">>,
                   <<"<">>, <<">","=">>, <<"<","=">>, <<"=">>, <<"=","<">>,
                   <<"l","i","k","e">>, << >>}),
                   value \in ({<<"c","r","o","p","l","a","n","d",","," ","p","a","s","t","u",
                   "r","e">>, <<"c","r","o","p","l","a","n","d">>, <<"N","o","n","e">>,
                   <<"T","r","u","e">>, <<"8">>, <<"8",".","0">>, <<" ","1","0"," ">>,
                   <<"2",",","8">>, <<"8",","," ","1","0",".","5">>, <<"2",",","x">>,
                   <<"n","a","n">>, << >>, <<" ","8",".","0","0","0","1"," ",",","9">>}) :
        /\ call' = [op |-> "check_condition", parcel |-> parcel,
                    field |-> field, operator |-> operator, value |-> value,
                    ret |-> check_condition(parcel, field, operator, value)]
        /\ UNCHANGED <<rule_sheet, _crp_rule_map, thread_vars, store_vars>>

EligibleCrpPractices ==
    /\ call = no_call
    /\ \E parcel \in ({ << >>,
                (<<"l","a","n","d","_","c","o","v","e","r">> :> PyStr(<<"c","r","o","p","l","a",
                "n","d">>)) @@ (<<"s","l","o","p","e","_","p","e","r","c","e","n",
                "t">> :> PyFloat(F(80))),
                (<<"l","a","n","d","_","c","o","v","e","r">> :> PyStr(<<"C","r","o","p","l","a",
                "n","d">>)) @@ (<<"s","l","o","p","e","_","p","e","r","c","e","n",
                "t">> :> PyInt(8)),
                (<<"l","a","n","d","_","c","o","v","e","r">> :> PyStr(<<"c","r","o","p","l","a",
                "n","d">>)) @@ (<<"s","l","o","p","e","_","p","e","r","c","e","n",
                "t">> :> PyFloat(F(100))),
                (<<"l","a","n","d","_","c","o","v","e","r">> :> PyBool(TRUE)) @@ (<<"s","l","o",
                "p","e","_","p","e","r","c","e","n","t">> :> PyStr(<<"s","t","e","e","p">>)),
                (<<"l","a","n","d","_","c","o","v","e","r">> :> PyStr(<<" ","p","a","s","t","u",
                "r","e">>)) @@ (<<"s","l","o","p","e","_","p","e","r","c","e","n",
                "t">> :> PyFloat(Fin(8 * Scale + Scale \div 10000))) }),
                rule_map \in ({build_crp_rule_map(DataFrame((<<PyStr(<<"c","r","p","_","p","r",
                "a","c","t","i","c","e","_","c","o","d","e">>),
                PyStr(<<"f","i","e","l","d","_","n","a","m","e">>),
                PyStr(<<"o","p","e","r","a","t","o","r">>), PyStr(<<"v","a","l","u","e">>)>>),
                rows)) : rows \in SeqsUpTo(({ RuleRow(<<"C","P","1">>,
                <<"l","a","n","d","_","c","o","v","e","r">>, <<" ","I","N"," ">>,
                PyStr(<<"c","r","o","p","l","a","n","d",","," ","p","a","s","t","u","r",
                "e">>)), RuleRow(<<"C","P","1">>,
                <<"s","l","o","p","e","_","p","e","r","c","e","n","t">>, <<"<","=">>,
                PyInt(8)), RuleRow(<<"C","P","2">>, <<"n","w","i","_","c","l","a","s","s">>,
                <<"!","=">>, PyStr(<<"N","O","N","E">>)), RuleRow(<<"C","P","2">>,
                <<"s","l","o","p","e","_","p","e","r","c","e","n","t">>, << >>, PyInt(8)) }),
                MaxRows)}) :
        /\ call' = [op |-> "eligible_crp_practices", parcel |-> parcel,
                    rule_map |-> rule_map,
                    ret |-> eligible_crp_practices(parcel, rule_map)]
        /\ UNCHANGED <<rule_sheet, _crp_rule_map, thread_vars, store_vars>>

FilterCrpByGis ==
    /\ call = no_call
    /\ \E crp \in ({response_None} \cup {QuoteResponse(<<"I","A">>, <<"S","t","o","r","y">>,
                F(400), ps) : ps \in SeqsUpTo(({ CrpPractice(<<"C","P","1">>,
                <<"W","e","t","l","a","n","d"," ","R","e","s","t","o","r","a","t","i","o","n",
                " ","B","u","f","f","e","r">>, 90), CrpPractice(<<"C","P","1">>,
                <<"C","o","v","e","r"," ","C","r","o","p">>, 85), CrpPractice(<<"C","P","2">>,
                <<"S","T","R","E","A","M"," ","B","U","F","F","E","R">>, 70),
                CrpPractice(<<"C","P","3">>, <<"C","o","v","e","r"," ","C","r","o","p">>,
                60) }), MaxPractices)}),
                gis \in (GISRecords({<<"c","r","o","p","l","a","n","d">>,
                <<"d","e","v","e","l","o","p","e","d">>,
                <<"D","e","v","e","l","o","p","e","d">>}, {F(10), F(100)})), io_ok \in BOOLEAN :
        LET fetched == crp_fetches_rules(crp, gis)
            got == IF fetched
                   THEN get_crp_rule_map(_crp_rule_map, rule_sheet, io_ok)
                   ELSE [ret |-> << >>, cache |-> _crp_rule_map]
        IN /\ _crp_rule_map' = got.cache
           /\ call' = [op |-> "filter_crp_by_gis", crp |-> crp, gis |-> gis,
                       fetched |-> fetched, rule_map |-> got.ret,
                       io_ok |-> (fetched /\ _crp_rule_map.is_none) => io_ok,
                       ret |-> filter_crp_by_gis(crp, gis, got.ret)]
           /\ UNCHANGED <<rule_sheet, thread_vars, store_vars>>

FilterEqipByGis ==
    /\ call = no_call
    /\ \E eqip \in ({response_None} \cup {QuoteResponse(<<"I","A">>, <<"S","t","o","r","y">>,
                F(400), ps) : ps \in SeqsUpTo(({ ScenarioQuote(<<"6","0","0">>,
                <<"T","e","r","r","a","c","e"," ","C","o","n","s","t","r","u","c","t","i","o",
                "n">>, 30), ScenarioQuote(<<"3","4","0">>,
                <<"C","o","v","e","r"," ","C","r","o","p">>, 50),
                ScenarioQuote(<<"6","5","7">>,
                <<"W","e","t","l","a","n","d"," ","R","e","s","t","o","r","a","t","i","o","n",
                " ","B","u","f","f","e","r">>, 90), ScenarioQuote(<<"3","9","1">>,
                <<"R","i","p","a","r","i","a","n"," ","W","a","t","e","r","w","a","y">>,
                70) }), MaxPractices)}),
                gis \in (GISRecords({<<"c","r","o","p","l","a","n","d">>}, {F(10), F(20),
                F(50)})) :
        /\ call' = [op |-> "filter_eqip_by_gis", eqip |-> eqip, gis |-> gis,
                    ret |-> filter_eqip_by_gis(eqip, gis)]
        /\ UNCHANGED <<rule_sheet, _crp_rule_map, thread_vars, store_vars>>

FilterCspByGis ==
    /\ call = no_call
    /\ \E csp \in ({response_None} \cup {QuoteResponse(<<"I","A">>, <<"S","t","o","r","y">>,
                F(400), ps) : ps \in SeqsUpTo(({ ScenarioQuote(<<"6","0","0">>,
                <<"T","e","r","r","a","c","e"," ","C","o","n","s","t","r","u","c","t","i","o",
                "n">>, 30), ScenarioQuote(<<"3","4","0">>,
                <<"C","o","v","e","r"," ","C","r","o","p">>, 50),
                ScenarioQuote(<<"6","5","7">>,
                <<"W","e","t","l","a","n","d"," ","R","e","s","t","o","r","a","t","i","o","n",
                " ","B","u","f","f","e","r">>, 90), ScenarioQuote(<<"3","9","1">>,
                <<"R","i","p","a","r","i","a","n"," ","W","a","t","e","r","w","a","y">>,
                70) }), MaxPractices)}),
                gis \in (GISRecords({<<"c","r","o","p","l","a","n","d">>}, {F(10), F(20),
                F(50)})) :
        /\ call' = [op |-> "filter_csp_by_gis", csp |-> csp, gis |-> gis,
                    ret |-> filter_csp_by_gis(csp, gis)]
        /\ UNCHANGED <<rule_sheet, _crp_rule_map, thread_vars, store_vars>>

\* process_parcel_geometry on a geometry of any shape
ProcessParcelGeometry ==
    /\ call = no_call
    /\ \E parcel_geom \in ({ Geometry("dict", PyFloat(p.lat), PyFloat(p.lon),
                << >>) : p \in Places } \cup { Geometry("pair", PyFloat(F(-935)),
                PyFloat(F(450)), << >>), Geometry("pair", PyStr(<<"x">>), PyInt(45), << >>),
                Geometry("point", PyInt(-90), PyStr(<<" ","4","5",".","0"," ">>), << >>),
                Geometry("dict", PyNone, PyFloat(F(-935)), << >>), Geometry("wkt", PyNone,
                PyNone, <<"P","o","i","n","t","(","-","9","3",".","5"," ","4","2",".","0",
                ")">>), Geometry("wkt", PyNone, PyNone,
                <<"P","O","I","N","T","(","n","a","n"," "," ","4","5",")">>), Geometry("wkt",
                PyNone, PyNone, <<"P","O","I","N","T","(","1"," ","2"," ","3",")">>),
                Geometry("other", PyNone, PyNone, << >>) }), p \in Places :
        /\ call' = [op |-> "process_parcel_geometry", parcel_geom |-> parcel_geom,
                    state |-> p.state, county |-> p.county,
                    ret |-> process_parcel_geometry(parcel_geom, p.state, p.county)]
        /\ UNCHANGED <<rule_sheet, _crp_rule_map, thread_vars, store_vars>>

\* The practice lists quote_eqip and quote_csp are taken to give
QuotedScenarios ==
    {<< >>,
     <<ScenarioQuote(<<"6","0","0">>,
                 <<"T","e","r","r","a","c","e"," ","C","o","n","s","t","r","u","c","t","i","o",
                 "n">>, 30),
       ScenarioQuote(<<"3","4","0">>, <<"C","o","v","e","r"," ","C","r","o","p">>, 50)>>,
     <<ScenarioQuote(<<"6","5","7">>,
                 <<"W","e","t","l","a","n","d"," ","R","e","s","t","o","r","a","t","i","o","n",
                 " ","B","u","f","f","e","r">>, 90),
       ScenarioQuote(<<"6","0","0">>,
                   <<"T","e","r","r","a","c","e"," ","C","o","n","s","t","r","u","c","t","i",
                   "o","n">>, 30)>>}

\* GET /programs/quote_all_gis: the quotes are what the schedules on disk give
ProgramsQuoteAllGis ==
    /\ call = no_call
    /\ \E p \in Places :
       \E gis \in {process_parcel_geometry(
                      Geometry("dict", PyFloat(p.lat), PyFloat(p.lon), << >>),
                      p.state, p.county)} :
       \E crp_raw \in
            {QuoteResponse(p.state, p.county, F(400), ps) :
                ps \in {<< >>,
                        <<CrpPractice(<<"C","P","1">>,
                                    <<"W","e","t","l","a","n","d"," ","R","e","s","t","o","r",
                                    "a","t","i","o","n"," ","B","u","f","f","e","r">>, 90),
                          CrpPractice(<<"C","P","3">>,
                                      <<"C","o","v","e","r"," ","C","r","o","p">>, 60)>>}},
          io_ok \in BOOLEAN :
       \E got \in {IF crp_fetches_rules(crp_raw, gis)
                   THEN get_crp_rule_map(_crp_rule_map, rule_sheet, io_ok)
                   ELSE [ret |-> << >>, cache |-> _crp_rule_map]} :
       \E crp \in {filter_crp_by_gis(crp_raw, gis, got.ret)} :
       \E eqip_raw \in {QuoteResponse(p.state, p.county, F(400), ps) :
                           ps \in QuotedScenarios} :
       \E eqip \in {filter_eqip_by_gis(eqip_raw, gis)} :
       \E csp_raw \in {QuoteResponse(p.state, p.county, F(400), ps) :
                          ps \in QuotedScenarios} :
          /\ _crp_rule_map' = got.cache
          /\ call' = [op |-> "programs_quote_all_gis",
                      state |-> p.state, county |-> p.county,
                      acres |-> F(400), lat |-> p.lat, lon |-> p.lon,
                      gis |-> gis, crp_raw |-> crp_raw,
                      eqip_raw |-> eqip_raw, csp_raw |-> csp_raw,
                      crp |-> crp, eqip |-> eqip,
                      csp |-> filter_csp_by_gis(csp_raw, gis)]
          /\ UNCHANGED <<rule_sheet, thread_vars, store_vars>>

\* The caller takes the returned value; the next call may start
Return ==
    /\ call # no_call
    /\ call' = no_call
    /\ UNCHANGED <<rule_sheet, _crp_rule_map, thread_vars, store_vars>>

Next ==
    \/ CheckCondition
    \/ EligibleCrpPractices
    \/ FilterCrpByGis
    \/ FilterEqipByGis
    \/ FilterCspByGis
    \/ ProcessParcelGeometry
    \/ ProgramsQuoteAllGis
    \/ Return

Spec == Init /\ [][Next]_vars

\* The condition evaluator on its own: no rule sheet is involved
InitCond ==
    /\ rule_sheet = unreadable_sheet
    /\ _crp_rule_map = cache_None
    /\ call = no_call
    /\ threads = [t \in Threads |-> idle_thread]
    /\ reads = 0
    /\ builds = 0
    /\ parcels = {}
    /\ sqlite_sequence = 0

NextCond ==
    \/ CheckCondition
    \/ Return

SpecCond == InitCond /\ [][NextCond]_vars

(***************************************************************************)
(* The rule map builder on its own                                         *)
(***************************************************************************)

\* The cells of a sheet row, by the column they belong to
SheetRow(code, field, operator, value) ==
    [crp_practice_code |-> code, field_name |-> field,
     operator |-> operator, value |-> value]

\* Column layouts: the label of each column and the cell it holds
Column(label, holds) == [label |-> PyStr(label), holds |-> holds]

\* The DataFrame of a layout and a list of sheet rows
SheetFrame(layout, sheet_rows) ==
    DataFrame([j \in 1..Len(layout) |-> layout[j].label],
              [i \in 1..Len(sheet_rows) |->
                  [j \in 1..Len(layout) |-> sheet_rows[i][layout[j].holds]]])

BuildCrpRuleMap ==
    /\ call = no_call
    /\ \E df \in ({df_None} \cup {SheetFrame(layout,
                sheet_rows) : layout \in ({ <<Column(<<"c","r","p","_","p","r","a","c","t","i",
                "c","e","_","c","o","d","e">>, "crp_practice_code"),
                Column(<<"f","i","e","l","d","_","n","a","m","e">>, "field_name"),
                Column(<<"o","p","e","r","a","t","o","r">>, "operator"),
                Column(<<"v","a","l","u","e">>, "value")>>,
                <<Column(<<" ","V","A","L","U","E">>, "value"),
                Column(<<"O","p","e","r","a","t","o","r"," ">>, "operator"),
                Column(<<"F","i","e","l","d","_","N","a","m","e">>, "field_name"),
                Column(<<"C","R","P","_","P","r","a","c","t","i","c","e","_","C","o","d","e">>,
                "crp_practice_code")>>,
                <<Column(<<"c","r","p","_","p","r","a","c","t","i","c","e","_","c","o","d",
                "e">>, "crp_practice_code"),
                Column(<<"f","i","e","l","d","_","n","a","m","e">>, "field_name"),
                Column(<<"o","p","e","r","a","t","o","r">>, "operator")>>,
                <<Column(<<"c","r","p","_","p","r","a","c","t","i","c","e","_","c","o","d",
                "e">>, "crp_practice_code"),
                Column(<<"f","i","e","l","d","_","n","a","m","e">>, "field_name"),
                Column(<<"v","a","l","u","e">>, "value")>>,
                <<Column(<<"c","r","p","_","p","r","a","c","t","i","c","e","_","c","o","d",
                "e">>, "crp_practice_code"), Column(<<"o","p","e","r","a","t","o","r">>,
                "operator"), Column(<<"v","a","l","u","e">>, "value")>>,
                <<Column(<<"f","i","e","l","d","_","n","a","m","e">>, "field_name"),
                Column(<<"o","p","e","r","a","t","o","r">>, "operator"),
                Column(<<"v","a","l","u","e">>, "value")>> }),
                sheet_rows \in SeqsUpTo(({ SheetRow(PyStr(<<"C","P","1">>),
                PyStr(<<"l","a","n","d","_","c","o","v","e","r">>), PyStr(<<"i","n">>),
                PyStr(<<"c","r","o","p","l","a","n","d",","," ","p","a","s","t","u","r",
                "e">>)), SheetRow(PyStr(<<"C","P","1">>),
                PyStr(<<"s","l","o","p","e","_","p","e","r","c","e","n","t">>),
                PyStr(<<"<","=">>), PyInt(8)), SheetRow(PyStr(<<" ","C","P","2"," ">>),
                PyStr(<<"n","w","i","_","c","l","a","s","s">>), PyStr(<<"!","=">>),
                PyStr(<<" ">>)), SheetRow(PyStr(<<"C","P","2">>), PyStr(<<" ">>),
                PyStr(<<"=","=">>), PyStr(<<"N","O","N","E">>)),
                SheetRow(PyStr(<<"C","P","1">>),
                PyStr(<<"h","y","d","r","i","c","_","p","e","r","c","e","n","t">>),
                (PyFloat(NaN)), PyInt(20)) }), MaxRows)}) :
        /\ call' = [op |-> "build_crp_rule_map", df |-> df,
                    ret |-> build_crp_rule_map(df)]
        /\ UNCHANGED <<rule_sheet, _crp_rule_map, thread_vars, store_vars>>

NextBuild ==
    \/ BuildCrpRuleMap
    \/ Return

SpecBuild == InitCond /\ [][NextBuild]_vars

(***************************************************************************)
(* get_crp_rule_map called from request threads: the handlers are plain    *)
(* functions, which the server runs on a pool of threads, and the function *)
(* takes no lock.  Each step below is one read or write of the global.     *)
(***************************************************************************)
\* the row loop adds to the dict of the running call; the global is untouched
append_row_to_global(cols, row, rule_map, cache) ==
    [rule_map |-> build_rows(cols, <<row>>, rule_map),
     cache |-> cache_of(build_rows(cols, <<row>>, rule_map))]

append_row(cols, row, rule_map, cache) ==
    [rule_map |-> build_rows(cols, <<row>>, rule_map), cache |-> cache]

\* a request thread enters get_crp_rule_map
ThreadCall(t) ==
    /\ threads[t].pc = "idle"
    /\ threads' = [threads EXCEPT ![t].pc = "check"]
    /\ UNCHANGED <<rule_sheet, _crp_rule_map, call, reads, builds, store_vars>>

\* "if _crp_rule_map is not None: return _crp_rule_map"
ThreadCheck(t) ==
    /\ threads[t].pc = "check"
    /\ threads' = [threads EXCEPT ![t].pc =
                      IF _crp_rule_map.is_none THEN "read" ELSE "return"]
    /\ UNCHANGED <<rule_sheet, _crp_rule_map, call, reads, builds, store_vars>>

\* The try statement: "df_rules = pd.read_excel(...)" raises, or it returns
\* the frame and build_crp_rule_map(df_rules) makes the map to assign; the
\* call fills a dict of its own, so it is taken in one step here (NextPublish
\* follows it row by row)
ThreadRead(t) ==
    /\ threads[t].pc = "read"
    /\ reads' = reads + 1
    /\ \E io_ok \in BOOLEAN :
          /\ threads' = [threads EXCEPT ![t] =
                IF read_rule_sheet(rule_sheet, io_ok).raised
                THEN [@ EXCEPT !.pc = "except"]
                ELSE [@ EXCEPT !.pc = "store", !.rule_map =
                        build_crp_rule_map(read_rule_sheet(rule_sheet, io_ok).df)]]
          /\ builds' = IF read_rule_sheet(rule_sheet, io_ok).raised
                       THEN builds ELSE builds + 1
    /\ UNCHANGED <<rule_sheet, _crp_rule_map, call, store_vars>>

\* "_crp_rule_map = {}" of the except clause, or
\* "_crp_rule_map = build_crp_rule_map(df_rules)"
ThreadAssign(t) ==
    /\ threads[t].pc \in {"except", "store"}
    /\ _crp_rule_map' = cache_of(IF threads[t].pc = "except"
                                 THEN << >> ELSE threads[t].rule_map)
    /\ threads' = [threads EXCEPT ![t].pc = "return", ![t].rule_map = << >>]
    /\ UNCHANGED <<rule_sheet, call, reads, builds, store_vars>>

\* build_crp_rule_map(df_rules) is entered: the early returns, or the loop
ThreadBuild(t) ==
    /\ threads[t].pc = "build"
    /\ builds' = builds + 1
    /\ threads' = [threads EXCEPT ![t] =
          IF \/ @.df.none
             \/ ~(required \subseteq
                    {normalize_columns(@.df.columns)[j] :
                        j \in 1..Len(@.df.columns)})
             \/ @.df.rows = << >>
          THEN [@ EXCEPT !.pc = "store", !.df = df_None]
          ELSE [@ EXCEPT !.pc = "rows", !.i = 1]]
    /\ UNCHANGED <<rule_sheet, _crp_rule_map, call, reads, store_vars>>

\* one turn of "for _, row in df.iterrows()"
ThreadBuildRow(t) ==
    /\ threads[t].pc = "rows"
    /\ LET th == threads[t]
           r == append_row(normalize_columns(th.df.columns),
                           th.df.rows[th.i], th.rule_map, _crp_rule_map)
       IN /\ _crp_rule_map' = r.cache
          /\ threads' = [threads EXCEPT ![t] =
                IF th.i = Len(th.df.rows)
                THEN [@ EXCEPT !.pc = "store", !.rule_map = r.rule_map,
                               !.i = 0, !.df = df_None]
                ELSE [@ EXCEPT !.rule_map = r.rule_map, !.i = th.i + 1]]
    /\ UNCHANGED <<rule_sheet, call, reads, builds, store_vars>>

\* "return _crp_rule_map": the global is read again
ThreadReturn(t) ==
    /\ threads[t].pc = "return"
    /\ threads' = [threads EXCEPT ![t].pc = "done",
                                  ![t].ret = _crp_rule_map.map]
    /\ UNCHANGED <<rule_sheet, _crp_rule_map, call, reads, builds, store_vars>>

\* the caller has the map and the request ends
ThreadDone(t) ==
    /\ threads[t].pc = "done"
    /\ threads' = [threads EXCEPT ![t] = idle_thread]
    /\ UNCHANGED <<rule_sheet, _crp_rule_map, call, reads, builds, store_vars>>

\* The steps the program takes: the read raises every time, so the
\* statements after the try are not among them
NextThreads ==
    \E t \in Threads :
        \/ ThreadCall(t)
        \/ ThreadCheck(t)
        \/ ThreadRead(t)
        \/ ThreadAssign(t)
        \/ ThreadReturn(t)
        \/ ThreadDone(t)

SpecThreads == Init /\ [][NextThreads]_vars

\* The statements after the try, on their own: one caller holds the frame
\* a read has handed it and is about to call build_crp_rule_map, while the
\* other threads call get_crp_rule_map as they please
InitPublish ==
    /\ rule_sheet \in {sh \in RuleSheets : sh.readable}
    /\ _crp_rule_map = cache_None
    /\ call = no_call
    /\ threads = [t \in Threads |->
                    IF t = 1
                    THEN [idle_thread EXCEPT !.pc = "build", !.df = rule_sheet.df]
                    ELSE idle_thread]
    /\ reads = 1
    /\ builds = 0
    /\ parcels = {}
    /\ sqlite_sequence = 0

NextPublish ==
    \/ NextThreads
    \/ \E t \in Threads :
          \/ ThreadBuild(t)
          \/ ThreadBuildRow(t)

SpecPublish == InitPublish /\ [][NextPublish]_vars

\* filter_crp_by_gis and its sister filters for whatever map the cache
\* holds when they are called: the cache is an input of the filter
InitRules ==
    /\ rule_sheet = unreadable_sheet
    /\ _crp_rule_map \in
          {cache_None} \cup
          {cache_of(build_crp_rule_map(sh.df)) : sh \in RuleSheets}
    /\ call = no_call
    /\ threads = [t \in Threads |-> idle_thread]
    /\ reads = 0
    /\ builds = 0
    /\ parcels = {}
    /\ sqlite_sequence = 0

NextRules ==
    \/ FilterCrpByGis
    \/ FilterEqipByGis
    \/ FilterCspByGis
    \/ Return

SpecRules == InitRules /\ [][NextRules]_vars

(***************************************************************************)
(* app/main.py: the parcel store and its handlers.  Each handler is taken  *)
(* as one step: the store is written inside one "with conn:" block.  Which *)
(* request reaches which handler is the router's matter (Dispatch).        *)
(***************************************************************************)
\* what sqlite3 binds for a float: nan is stored as NULL
sql_real(x) == IF x = NaN THEN PyNone ELSE PyFloat(x)

compute_metrics(acres, price_acre, pay_acre, risk) ==
    LET expected_payout == float_mul(acres, pay_acre)
        raw_yield_percent ==
            IF price_acre # Fin(0)
            THEN float_mul(float_div(pay_acre, price_acre), Fin(100 * Scale))
            ELSE Fin(0)
        one_minus_risk ==
            float_add(Fin(Scale), float_mul(Fin(-Scale), risk))
        las_score == float_mul(float_mul(raw_yield_percent, one_minus_risk),
                               Fin(20 * Scale))
    IN [las_score |-> round(las_score, 2),
        expected_year1_payout |-> round(expected_payout, 2),
        raw_yield_percent |-> round(raw_yield_percent, 2)]

\* The Field(...) constraints of ParcelBase on the four inputs
ParcelBase(p) ==
    /\ NumGt(p.acres, Fin(0))
    /\ NumGt(p.purchase_price_per_acre, Fin(0))
    /\ NumGe(p.expected_payment_per_acre_year1, Fin(0))
    /\ NumGe(p.risk_score, Fin(0))
    /\ NumLe(p.risk_score, Fin(Scale))

\* The GIS columns of a row that has none
null_gis ==
    [lat |-> PyNone, lon |-> PyNone, land_cover |-> PyNone,
     slope_percent |-> PyNone, hydric_percent |-> PyNone,
     nwi_class |-> PyNone, in_100yr_floodplain |-> PyNone,
     distance_to_stream_m |-> PyNone]

\* The GIS columns create_single stores for a parcel with coordinates
gis_columns(auto) ==
    [lat |-> IF auto.lat.t = "float" THEN sql_real(auto.lat.x) ELSE PyNone,
     lon |-> IF auto.lon.t = "float" THEN sql_real(auto.lon.x) ELSE PyNone,
     land_cover |-> PyStr(auto.land_cover),
     slope_percent |-> sql_real(auto.slope_percent),
     hydric_percent |-> sql_real(auto.hydric_percent),
     nwi_class |-> PyStr(auto.nwi_class),
     in_100yr_floodplain |-> PyInt(IF auto.in_100yr_floodplain THEN 1 ELSE 0),
     distance_to_stream_m |-> sql_real(auto.distance_to_stream_m)]

\* A row of the parcels table
Row(id, state, county, acres, price_acre, pay_acre, risk, metrics, gis) ==
    [id |-> id, state |-> state, county |-> county, acres |-> acres,
     purchase_price_per_acre |-> price_acre,
     expected_payment_per_acre_year1 |-> pay_acre, risk_score |-> risk,
     las_score |-> metrics.las_score,
     expected_year1_payout |-> metrics.expected_year1_payout,
     raw_yield_percent |-> metrics.raw_yield_percent, gis |-> gis]

\* The NOT NULL constraints on the numeric columns
not_null(row) ==
    \A x \in {row.acres, row.purchase_price_per_acre,
              row.expected_payment_per_acre_year1, row.risk_score,
              row.las_score, row.expected_year1_payout,
              row.raw_yield_percent} : x # NaN

\* row_to_parcel(row) builds a ParcelOut, or pydantic raises
row_to_parcel(row) == [raised |-> ~ParcelBase(row), parcel |-> row]

\* INSERT INTO parcels under "id INTEGER PRIMARY KEY AUTOINCREMENT", and the
\* SELECT of the new row that follows it
insert(table, seq, row) ==
    IF not_null(row)
    THEN [raised |-> FALSE, table |-> table \cup {[row EXCEPT !.id = seq + 1]},
          seq |-> seq + 1, db_row |-> [row EXCEPT !.id = seq + 1]]
    ELSE [raised |-> TRUE, table |-> table, seq |-> seq, db_row |-> row]

\* What a loop over rows to insert has done so far
Progress(raised, table, seq, created) ==
    [raised |-> raised, table |-> table, seq |-> seq, created |-> created]

\* "created.append(row_to_parcel(db_row))" of create_bulk after its INSERT:
\* an exception leaves the loop
bulk_append(so_far, ins) ==
    IF ins.raised \/ row_to_parcel(ins.db_row).raised
    THEN Progress(TRUE, so_far.table, so_far.seq, so_far.created)
    ELSE Progress(FALSE, ins.table, ins.seq, Append(so_far.created, ins.db_row))

\* "for p in parcels:" of create_bulk
RECURSIVE bulk_loop(_, _)
bulk_loop(bodies, so_far) ==
    IF bodies = << >> \/ so_far.raised THEN so_far
    ELSE bulk_loop(Tail(bodies),
            bulk_append(so_far,
                insert(so_far.table, so_far.seq,
                       Row(0, Head(bodies).state, Head(bodies).county,
                           Head(bodies).acres,
                           Head(bodies).purchase_price_per_acre,
                           Head(bodies).expected_payment_per_acre_year1,
                           Head(bodies).risk_score,
                           compute_metrics(
                               Head(bodies).acres,
                               Head(bodies).purchase_price_per_acre,
                               Head(bodies).expected_payment_per_acre_year1,
                               Head(bodies).risk_score),
                           null_gis))))

\* "created.append(row_to_parcel(db_row))" of import_parcels_csv after its
\* INSERT and SELECT; "except Exception: continue" goes on with the next row
import_append(so_far, ins) ==
    IF ins.raised THEN so_far
    ELSE IF row_to_parcel(ins.db_row).raised
    THEN Progress(FALSE, ins.table, ins.seq, so_far.created)
    ELSE Progress(FALSE, ins.table, ins.seq, Append(so_far.created, ins.db_row))

\* The try block of import_parcels_csv once float() has run on the four
\* cells: a cell that does not parse raises and the row is passed over
import_row(so_far, state, county, acres, price_acre, pay_acre, risk) ==
    IF ~(acres.ok /\ price_acre.ok /\ pay_acre.ok /\ risk.ok) THEN so_far
    ELSE import_append(so_far,
            insert(so_far.table, so_far.seq,
                   Row(0, state, county, acres.num, price_acre.num,
                       pay_acre.num, risk.num,
                       compute_metrics(acres.num, price_acre.num,
                                       pay_acre.num, risk.num),
                       null_gis)))

\* "for row in reader:" of import_parcels_csv
RECURSIVE import_loop(_, _)
import_loop(rows, so_far) ==
    IF rows = << >> THEN so_far
    ELSE import_loop(Tail(rows),
            import_row(so_far, Head(rows).state, Head(rows).county,
                       float_of_str(Head(rows).acres),
                       float_of_str(Head(rows).purchase_price_per_acre),
                       float_of_str(Head(rows).expected_payment_per_acre_year1),
                       float_of_str(Head(rows).risk_score)))

\* the metrics columns left as they were
update_row_metrics_kept(row, updates) ==
    [row EXCEPT
        !.state = IF updates.state # << >> THEN updates.state ELSE @,
        !.acres = IF updates.acres.t # "NoneType" THEN updates.acres.x ELSE @,
        !.expected_payment_per_acre_year1 =
            IF updates.expected_payment_per_acre_year1.t # "NoneType"
            THEN updates.expected_payment_per_acre_year1.x ELSE @]

\* The row update_parcel writes: each value of the request that is not
\* None (state: not None and not '') replaces the stored one, and the
\* metrics are computed again.  A state of None is held as ''.
update_row(row, updates) ==
    LET state == IF updates.state # << >> THEN updates.state ELSE row.state
        acres == IF updates.acres.t # "NoneType"
                 THEN updates.acres.x ELSE row.acres
        price_acre == row.purchase_price_per_acre
        pay_acre == IF updates.expected_payment_per_acre_year1.t # "NoneType"
                    THEN updates.expected_payment_per_acre_year1.x
                    ELSE row.expected_payment_per_acre_year1
        risk == row.risk_score
    IN Row(row.id, state, row.county, acres, price_acre, pay_acre, risk,
           compute_metrics(acres, price_acre, pay_acre, risk), row.gis)

(***************************************************************************)
(* The routes of app/main.py under /parcels, in the order the decorators   *)
(* register them.  A path is the sequence of its segments.                 *)
(***************************************************************************)
Route(method, path, endpoint) ==
    [method |-> method, path |-> path, endpoint |-> endpoint]

seg_parcels == <<"p","a","r","c","e","l","s">>
seg_parcel_id == <<"{","p","a","r","c","e","l","_","i","d","}">>

routes ==
    << Route("POST", <<seg_parcels, <<"s","i","n","g","l","e">>>>, "create_single"),
       Route("POST", <<seg_parcels>>, "create_bulk"),
       Route("POST", <<seg_parcels, <<"i","m","p","o","r","t","_","c","s","v">>>>,
             "import_parcels_csv"),
       Route("POST", <<seg_parcels, <<"r","a","n","k","_","c","s","v">>>>, "rank_csv"),
       Route("GET", <<seg_parcels>>, "list_parcels"),
       Route("GET", <<seg_parcels, <<"t","o","p">>>>, "top_parcels"),
       Route("GET", <<seg_parcels, seg_parcel_id>>, "get_parcel"),
       Route("GET", <<seg_parcels, <<"c","o","u","n","t","y","_","s","t","a","t","s">>>>,
                   "county_stats"),
       Route("PUT", <<seg_parcels, seg_parcel_id>>, "update_parcel"),
       Route("DELETE", <<seg_parcels, seg_parcel_id>>, "delete_parcel"),
       Route("DELETE", <<seg_parcels, <<"r","e","s","e","t">>>>, "reset_parcels") >>

\* a segment "{name}" of a route path takes any segment that is not empty
is_param(seg) == Len(seg) >= 2 /\ seg[1] = "{" /\ seg[Len(seg)] = "}"

path_matches(route, path) ==
    /\ Len(route.path) = Len(path)
    /\ \A i \in 1..Len(path) :
          IF is_param(route.path[i]) THEN path[i] # << >>
          ELSE route.path[i] = path[i]

\* "parcel_id: int": the captured segment has to read as an integer
params_valid(route, path) ==
    \A i \in 1..Len(path) :
        is_param(route.path[i]) =>
            LET digits == IF Head(path[i]) \in {"+", "-"}
                          THEN Tail(path[i]) ELSE path[i]
            IN digits # << >> /\ AllDigits(digits)

\* The router: the first route whose path and method both match takes the
\* request; its parameters are then validated (422) before the endpoint is
\* called.  A path matched under other methods only answers 405.
dispatch(table, method, path) ==
    LET full == {i \in 1..Len(table) :
                    path_matches(table[i], path) /\ table[i].method = method}
        partial == {i \in 1..Len(table) : path_matches(table[i], path)}
    IN IF full # {}
       THEN LET route == table[CHOOSE i \in full : \A j \in full : i <= j]
            IN IF params_valid(route, path)
               THEN [endpoint |-> route.endpoint, status |-> 200]
               ELSE [endpoint |-> "none", status |-> 422]
       ELSE IF partial # {} THEN [endpoint |-> "none", status |-> 405]
       ELSE [endpoint |-> "none", status |-> 404]

(***************************************************************************)
(* Requests the store is exercised on                                      *)
(***************************************************************************)
\* A ParcelCreate body; lat and lon go together here
ParcelCreate(acres, pay_acre, risk, located) ==
    [state |-> <<"I","A">>, county |-> <<"S","t","o","r","y">>, acres |-> acres,
     purchase_price_per_acre |-> F(10000),
     expected_payment_per_acre_year1 |-> pay_acre, risk_score |-> risk,
     lat |-> IF located THEN PyFloat(F(420)) ELSE PyNone,
     lon |-> IF located THEN PyFloat(F(-935)) ELSE PyNone]

\* A line of an uploaded CSV file, cell by cell
CsvRow(acres, risk) ==
    [state |-> <<"I","A">>, county |-> <<"S","t","o","r","y">>, acres |-> acres,
     purchase_price_per_acre |-> <<"1","0","0","0">>,
     expected_payment_per_acre_year1 |-> <<"5","0",".","0">>,
     risk_score |-> risk]

\* A ParcelUpdate body
ParcelUpdate(state, acres, pay_acre) ==
    [state |-> state, acres |-> acres,
     expected_payment_per_acre_year1 |-> pay_acre]

(***************************************************************************)
(* The handlers                                                            *)
(***************************************************************************)
\* POST /parcels/single.  The terrain lookup that follows the insert only
\* adds two values to the answer and is left out.
CreateSingle ==
    /\ call = no_call
    /\ sqlite_sequence < MaxId
    /\ \E parcel \in ({ ParcelCreate(F(100), F(500), F(1), FALSE), ParcelCreate(F(25), F(500),
                F(1), TRUE), ParcelCreate(F(0), F(500), F(1), FALSE) }) :
       \E gis \in {IF parcel.lat.t # "NoneType" /\ parcel.lon.t # "NoneType"
                   THEN gis_columns(process_parcel_geometry(
                            Geometry("dict", parcel.lat, parcel.lon, << >>),
                            parcel.state, parcel.county))
                   ELSE null_gis} :
       \E ins \in {insert(parcels, sqlite_sequence,
                          Row(0, parcel.state, parcel.county, parcel.acres,
                              parcel.purchase_price_per_acre,
                              parcel.expected_payment_per_acre_year1,
                              parcel.risk_score,
                              compute_metrics(
                                  parcel.acres,
                                  parcel.purchase_price_per_acre,
                                  parcel.expected_payment_per_acre_year1,
                                  parcel.risk_score),
                              gis))} :
          IF ~ParcelBase(parcel)
          THEN /\ call' = [op |-> "create_single", parcel |-> parcel,
                           status |-> 422, created |-> << >>]
               /\ UNCHANGED store_vars
          ELSE /\ parcels' = ins.table
               /\ sqlite_sequence' = ins.seq
               /\ call' = [op |-> "create_single", parcel |-> parcel,
                           status |-> IF ins.raised THEN 500 ELSE 200,
                           created |-> IF ins.raised THEN << >>
                                       ELSE <<ins.db_row>>]
    /\ UNCHANGED <<rule_sheet, _crp_rule_map, thread_vars>>

\* POST /parcels: an exception inside "with conn:" rolls every insert back
CreateBulk ==
    /\ call = no_call
    /\ \E bodies \in SeqsUpTo(({ ParcelCreate(F(100), F(500), F(1), FALSE), ParcelCreate(F(25),
                F(500), F(1), TRUE), ParcelCreate(F(0), F(500), F(1), FALSE) }), MaxBulk) :
        /\ sqlite_sequence + Len(bodies) <= MaxId
        /\ \E done \in {bulk_loop(bodies, Progress(FALSE, parcels,
                                                   sqlite_sequence, << >>))} :
              IF \E i \in 1..Len(bodies) : ~ParcelBase(bodies[i])
              THEN /\ call' = [op |-> "create_bulk", parcels |-> bodies,
                               status |-> 422, created |-> << >>]
                   /\ UNCHANGED store_vars
              ELSE /\ parcels' = IF done.raised THEN parcels ELSE done.table
                   /\ sqlite_sequence' =
                          IF done.raised THEN sqlite_sequence ELSE done.seq
                   /\ call' = [op |-> "create_bulk", parcels |-> bodies,
                               status |-> IF done.raised THEN 500 ELSE 200,
                               created |-> IF done.raised THEN << >>
                                           ELSE done.created]
    /\ UNCHANGED <<rule_sheet, _crp_rule_map, thread_vars>>

\* POST /parcels/import_csv with a .csv file; has_columns says whether its
\* header holds the six required columns.  "with conn:" commits on leaving
\* the loop, and "if not created:" answers 400 after that.
ImportParcelsCsv ==
    /\ call = no_call
    /\ \E rows \in SeqsUpTo(({ CsvRow(<<"1","0">>, <<"0",".","1">>), CsvRow(<<"0">>,
                <<"0",".","1">>), CsvRow(<<"t","e","n">>, <<"0",".","1">>),
                CsvRow(<<"n","a","n">>, <<"0",".","1">>) }), MaxBulk),
                has_columns \in BOOLEAN :
        /\ sqlite_sequence + Len(rows) <= MaxId
        /\ \E done \in {import_loop(rows, Progress(FALSE, parcels,
                                                   sqlite_sequence, << >>))} :
              IF ~has_columns
              THEN /\ call' = [op |-> "import_parcels_csv", rows |-> rows,
                               has_columns |-> FALSE, status |-> 400,
                               detail |-> "CSV must contain",
                               created |-> << >>]
                   /\ UNCHANGED store_vars
              ELSE /\ parcels' = done.table
                   /\ sqlite_sequence' = done.seq
                   /\ call' = [op |-> "import_parcels_csv", rows |-> rows,
                               has_columns |-> TRUE,
                               status |-> IF done.created = << >>
                                          THEN 400 ELSE 200,
                               detail |-> IF done.created = << >>
                                          THEN "No valid rows imported"
                                          ELSE "",
                               created |-> done.created]
    /\ UNCHANGED <<rule_sheet, _crp_rule_map, thread_vars>>

\* The Field(...) constraints of ParcelUpdate
ParcelUpdateValid(updates) ==
    /\ updates.acres.t # "NoneType" => NumGt(updates.acres.x, Fin(0))
    /\ updates.expected_payment_per_acre_year1.t # "NoneType" =>
          NumGe(updates.expected_payment_per_acre_year1.x, Fin(0))

\* PUT /parcels/{parcel_id}
UpdateParcel ==
    /\ call = no_call
    /\ \E parcel_id \in 1..MaxId, updates \in ({ ParcelUpdate(<< >>, PyNone, PyNone),
                ParcelUpdate(<< >>, PyFloat(F(25)), PyNone), ParcelUpdate(<<"M","I">>, PyNone,
                PyFloat(F(0))), ParcelUpdate(<< >>, PyFloat(F(-10)), PyNone) }) :
          IF ~ParcelUpdateValid(updates)
             \/ ~\E r \in parcels : r.id = parcel_id
          THEN /\ call' = [op |-> "update_parcel", parcel_id |-> parcel_id,
                           updates |-> updates,
                           status |-> IF ParcelUpdateValid(updates)
                                      THEN 404 ELSE 422]
               /\ UNCHANGED store_vars
          ELSE \E row \in {r \in parcels : r.id = parcel_id} :
               \E updated \in {update_row(row, updates)} :
                  /\ parcels' = IF not_null(updated)
                                THEN (parcels \ {row}) \cup {updated}
                                ELSE parcels
                  /\ call' = [op |-> "update_parcel", parcel_id |-> parcel_id,
                              updates |-> updates,
                              status |-> IF /\ not_null(updated)
                                            /\ ~row_to_parcel(updated).raised
                                         THEN 200 ELSE 500]
                  /\ UNCHANGED sqlite_sequence
    /\ UNCHANGED <<rule_sheet, _crp_rule_map, thread_vars>>

\* DELETE /parcels/{parcel_id}, when the router hands it the request
DeleteParcel ==
    /\ call = no_call
    /\ \E parcel_id \in 1..MaxId :
        /\ parcels' = {r \in parcels : r.id # parcel_id}
        /\ call' = [op |-> "delete_parcel", parcel_id |-> parcel_id,
                    status |-> IF \E r \in parcels : r.id = parcel_id
                               THEN 200 ELSE 404]
    /\ UNCHANGED <<rule_sheet, _crp_rule_map, thread_vars, sqlite_sequence>>

\* reset_parcels(): "DELETE FROM parcels"
ResetParcels ==
    /\ call = no_call
    /\ parcels' = {}
    /\ call' = [op |-> "reset_parcels", deleted_rows |-> Cardinality(parcels)]
    /\ UNCHANGED <<rule_sheet, _crp_rule_map, thread_vars, sqlite_sequence>>

\* The router takes a request line and picks the endpoint
Dispatch ==
    /\ call = no_call
    /\ \E request \in ({ [method |-> m, path |-> p] : m \in {"GET", "POST", "PUT", "DELETE"},
                p \in { <<seg_parcels>>, <<seg_parcels, <<"t","o","p">>>>, <<seg_parcels,
                <<"c","o","u","n","t","y","_","s","t","a","t","s">>>>, <<seg_parcels,
                <<"r","e","s","e","t">>>>, <<seg_parcels, <<"2">>>>, <<seg_parcels,
                <<"s","i","n","g","l","e">>>>, <<seg_parcels, <<"2">>, <<"t","o","p">>>> } }) :
        call' = [op |-> "dispatch", method |-> request.method,
                 path |-> request.path,
                 endpoint |-> dispatch(routes, request.method, request.path).endpoint,
                 status |-> dispatch(routes, request.method, request.path).status]
    /\ UNCHANGED <<rule_sheet, _crp_rule_map, thread_vars, store_vars>>

NextStore ==
    \/ CreateSingle
    \/ CreateBulk
    \/ ImportParcelsCsv
    \/ UpdateParcel
    \/ DeleteParcel
    \/ ResetParcels
    \/ Dispatch
    \/ Return

SpecStore == InitCond /\ [][NextStore]_vars

(***************************************************************************)
(* Properties                                                              *)
(***************************************************************************)
Elems(q) == {q[i] : i \in 1..Len(q)}

\* the codes of rule_map all of whose conditions hold for parcel
PassingCodes(parcel, rule_map) ==
    {rule_map[i].code : i \in
        {i \in 1..Len(rule_map) :
            \A j \in 1..Len(rule_map[i].conditions) :
                LET c == rule_map[i].conditions[j]
                IN check_condition(parcel, c.field, c.operator, c.value)}}

\* how many conditions of a list hold for parcel
HoldCount(parcel, conditions) ==
    Cardinality({j \in 1..Len(conditions) :
        check_condition(parcel, conditions[j].field,
                        conditions[j].operator, conditions[j].value)})

\* C1: eligible_crp_practices returns exactly the codes of the rule map all
\* of whose conditions evaluate true under check_condition (a code with only
\* some conditions true is excluded); an empty rule map gives an empty result.
C1_EligibleIffAllConditionsHold ==
    call.op = "eligible_crp_practices" =>
        /\ Elems(call.ret) = PassingCodes(call.parcel, call.rule_map)
        /\ (call.rule_map = << >> => call.ret = << >>)

\* a call where one code is returned and another, with exactly one of its
\* two conditions true, is left out
C1_Witness ==
    /\ call.op = "eligible_crp_practices"
    /\ call.ret # << >>
    /\ \E i \in 1..Len(call.rule_map) :
          /\ Len(call.rule_map[i].conditions) = 2
          /\ HoldCount(call.parcel, call.rule_map[i].conditions) = 1
          /\ call.rule_map[i].code \notin Elems(call.ret)

\* the dry-upland wetland heuristic, as the policy states it
WetlandKeywords ==
    {<<"w","e","t","l","a","n","d">>,
     <<"m","a","r","s","h">>,
     <<"b","o","g">>,
     <<"f","l","o","o","d","p","l","a","i","n">>,
     <<"r","i","p","a","r","i","a","n">>,
     <<"s","t","r","e","a","m"," ","b","u","f","f","e","r">>}
HeuristicDrop(p, gis) ==
    /\ gis.nwi_class = <<"N","O","N","E">>
    /\ NumLt(gis.hydric_percent, Fin(20 * Scale))
    /\ \E k \in WetlandKeywords : Contains(lower(p.crp_practice_name), k)

\* the rule step leaves p in the list
SurvivesRuleStep(p, crp, gis, rule_map) ==
    LET eligible == PassingCodes(rules_parcel(crp, gis), rule_map)
    IN ~(rule_map # << >> /\ eligible # {} /\ p.crp_practice_code \notin eligible)

RuleKeys(rule_map) == {rule_map[i].code : i \in 1..Len(rule_map)}

\* C2: when the GIS land cover is 'developed' in any letter case,
\* filter_crp_by_gis returns a quote with no practices, whatever the rule
\* map and the input practices.
C2_DevelopedReturnsNoPractices ==
    (/\ call.op = "filter_crp_by_gis"
     /\ ~call.crp.none
     /\ lower(call.gis.land_cover) = <<"d","e","v","e","l","o","p","e","d">>)
        => /\ ~call.ret.none
           /\ call.ret.practices = << >>

\* land cover 'Developed', practices quoted, a non-empty rule map cached
C2_Witness ==
    /\ call.op = "filter_crp_by_gis"
    /\ call.gis.land_cover = <<"D","e","v","e","l","o","p","e","d">>
    /\ Len(call.crp.practices) = MaxPractices
    /\ ~_crp_rule_map.is_none /\ _crp_rule_map.map # << >>
    /\ call.ret.practices = << >>

\* C3: land cover not developed, rule map non-empty, eligible set of the
\* synthetic parcel non-empty: every returned practice has an eligible
\* code, and no returned practice has a code outside the rule map's keys.
C3_OnlyEligibleCodesReturned ==
    (/\ call.op = "filter_crp_by_gis"
     /\ call.fetched
     /\ call.rule_map # << >>
     /\ PassingCodes(rules_parcel(call.crp, call.gis), call.rule_map) # {})
        => \A i \in 1..Len(call.ret.practices) :
              /\ call.ret.practices[i].crp_practice_code \in
                    PassingCodes(rules_parcel(call.crp, call.gis), call.rule_map)
              /\ call.ret.practices[i].crp_practice_code \in RuleKeys(call.rule_map)

\* a quote with an eligible code is returned while a quote whose code is no
\* key of the rule map is dropped, on land the heuristic leaves alone
C3_Witness ==
    /\ call.op = "filter_crp_by_gis"
    /\ call.fetched
    /\ call.rule_map # << >>
    /\ call.ret.practices # << >>
    /\ call.gis.nwi_class # <<"N","O","N","E">>
    /\ \E i \in 1..Len(call.crp.practices) :
          /\ call.crp.practices[i].crp_practice_code \notin RuleKeys(call.rule_map)
          /\ call.crp.practices[i] \notin Elems(call.ret.practices)

\* C4: land cover not developed, rule map empty or no code eligible: the
\* rule step drops nothing, the result is the input list without the quotes
\* the dry-upland wetland heuristic removes.
C4_NoEligibleCodeMeansNoRuleFilter ==
    (/\ call.op = "filter_crp_by_gis"
     /\ call.fetched
     /\ \/ call.rule_map = << >>
        \/ PassingCodes(rules_parcel(call.crp, call.gis), call.rule_map) = {})
        => call.ret.practices =
              SelectSeq(call.crp.practices,
                        LAMBDA p : ~HeuristicDrop(p, call.gis))

\* a non-empty rule map, no code eligible, and every quoted practice returned
C4_Witness ==
    /\ call.op = "filter_crp_by_gis"
    /\ call.fetched
    /\ call.rule_map # << >>
    /\ PassingCodes(rules_parcel(call.crp, call.gis), call.rule_map) = {}
    /\ Len(call.crp.practices) = MaxPractices
    /\ call.ret.practices = call.crp.practices

\* C5: a quote that survives the rule step is dropped by the heuristic step
\* iff wetland class = 'NONE' and hydric percent < 20 and its lowercased
\* name contains a wetland keyword.
C5_HeuristicDropsExactlyDryWetland ==
    (call.op = "filter_crp_by_gis" /\ call.fetched)
        => call.ret.practices =
              SelectSeq(
                  SelectSeq(call.crp.practices,
                            LAMBDA p : SurvivesRuleStep(p, call.crp, call.gis,
                                                        call.rule_map)),
                  LAMBDA p : ~HeuristicDrop(p, call.gis))

\* class NONE, hydric 10: 'Wetland Restoration Buffer' dropped, 'Cover Crop' kept
C5_Witness ==
    /\ call.op = "filter_crp_by_gis"
    /\ call.fetched
    /\ call.gis.nwi_class = <<"N","O","N","E">>
    /\ call.gis.hydric_percent = F(100)
    /\ Len(call.crp.practices) = 2
    /\ call.crp.practices[1].crp_practice_name = <<"W","e","t","l","a","n","d"," ","R","e","s",
                "t","o","r","a","t","i","o","n"," ","B","u","f","f","e","r">>
    /\ call.crp.practices[2].crp_practice_name = <<"C","o","v","e","r"," ","C","r","o","p">>
    /\ call.ret.practices = <<call.crp.practices[2]>>

\* the Program B/C policy: when a quote of that name is dropped
PolicyDrop(p, gis) ==
    \/ /\ _is_wetland_like_name(p.scenario_name)
       /\ ~(gis.nwi_class # <<"N","O","N","E">> \/ NumGe(gis.hydric_percent, Fin(20 * Scale)))
    \/ /\ _is_erosion_like_name(p.scenario_name)
       /\ NumLt(gis.slope_percent, Fin(2 * Scale))

\* C6: filter_eqip_by_gis and filter_csp_by_gis drop a quote iff (its name
\* is wetland-like and there is no wetness signal) or (its name is
\* erosion-like and slope percent < 2.0), and so agree on equal inputs.
C6_EqipAndCspSamePolicy ==
    /\ (call.op = "filter_eqip_by_gis" /\ ~call.eqip.none)
          => /\ call.ret.practices =
                   SelectSeq(call.eqip.practices,
                             LAMBDA p : ~PolicyDrop(p, call.gis))
             /\ filter_csp_by_gis(call.eqip, call.gis) = call.ret
    /\ (call.op = "filter_csp_by_gis" /\ ~call.csp.none)
          => /\ call.ret.practices =
                   SelectSeq(call.csp.practices,
                             LAMBDA p : ~PolicyDrop(p, call.gis))
             /\ filter_eqip_by_gis(call.csp, call.gis) = call.ret

\* slope 1.0: 'Terrace Construction' dropped by the Program C filter,
\* 'Cover Crop' kept
C6_Witness ==
    /\ call.op = "filter_csp_by_gis"
    /\ call.gis.slope_percent = F(10)
    /\ Len(call.csp.practices) = 2
    /\ call.csp.practices[1].scenario_name = <<"T","e","r","r","a","c","e"," ","C","o","n","s",
                "t","r","u","c","t","i","o","n">>
    /\ call.csp.practices[2].scenario_name = <<"C","o","v","e","r"," ","C","r","o","p">>
    /\ call.ret.practices = <<call.csp.practices[2]>>

\* a is b with some entries left out
RECURSIVE IsSubsequence(_, _)
IsSubsequence(a, b) ==
    IF a = << >> THEN TRUE
    ELSE IF b = << >> THEN FALSE
    ELSE IF Head(a) = Head(b) THEN IsSubsequence(Tail(a), Tail(b))
    ELSE IsSubsequence(a, Tail(b))

\* C7: the practice list each of the three filters returns is a
\* subsequence of its input list: entries unchanged, relative order kept.
C7_ResultIsSubsequenceOfInput ==
    /\ (call.op = "filter_crp_by_gis" /\ ~call.crp.none)
          => IsSubsequence(call.ret.practices, call.crp.practices)
    /\ (call.op = "filter_eqip_by_gis" /\ ~call.eqip.none)
          => IsSubsequence(call.ret.practices, call.eqip.practices)
    /\ (call.op = "filter_csp_by_gis" /\ ~call.csp.none)
          => IsSubsequence(call.ret.practices, call.csp.practices)

\* two different quotes both survive the Program A filter
C7_Witness ==
    /\ call.op = "filter_crp_by_gis"
    /\ Len(call.ret.practices) = 2
    /\ call.ret.practices[1] # call.ret.practices[2]
    /\ call.ret.practices = call.crp.practices

KnownOperators == {<<"i","n">>, <<"=","=">>, <<"!","=">>, <<"b","e","t","w","e","e","n">>,
            <<">">>, <<"<">>, <<">","=">>, <<"<","=">>}
NumericOperators == {<<"b","e","t","w","e","e","n">>, <<">">>, <<"<">>, <<">","=">>,
            <<"<","=">>}

\* C8: check_condition returns false whenever the operator, trimmed and
\* lowercased, is none of in, ==, !=, between, >, <, >=, <=.
C8_UnknownOperatorIsFalse ==
    (call.op = "check_condition"
     /\ lower(strip(call.operator)) \notin KnownOperators)
        => call.ret = FALSE

\* an unknown, non-empty operator applied to a numeric field and a numeric
\* literal: both conversions succeed and the fall-through is reached
C8_Witness ==
    /\ call.op = "check_condition"
    /\ lower(strip(call.operator)) \notin KnownOperators
    /\ call.operator # << >>
    /\ call.field \in DOMAIN call.parcel
    /\ float(call.parcel[call.field]).ok
    /\ float_of_str(call.value).ok
    /\ call.ret = FALSE

\* the literal of a numeric operator is no number (for between: is not
\* exactly two comma-separated numbers)
BadNumericLiteral(op, value) ==
    IF op = <<"b","e","t","w","e","e","n">>
    THEN LET parts == split(value, ",")
         IN ~(/\ Len(parts) = 2
              /\ float_of_str(parts[1]).ok
              /\ float_of_str(parts[2]).ok)
    ELSE ~float_of_str(value).ok

\* C9: with a numeric operator (between, >, <, >=, <=) check_condition
\* returns false whenever the parcel field is absent or is no number, and
\* whenever the literal is no number (between: not exactly two numbers).
C9_NumericFailClosed ==
    (/\ call.op = "check_condition"
     /\ lower(strip(call.operator)) \in NumericOperators
     /\ \/ call.field \notin DOMAIN call.parcel
        \/ ~float(call.parcel[call.field]).ok
        \/ BadNumericLiteral(lower(strip(call.operator)), call.value))
        => call.ret = FALSE

\* check_condition({}, 'slope_percent', '<=', '8') is false
C9_Witness ==
    /\ call.op = "check_condition"
    /\ call.parcel = << >>
    /\ call.field = <<"s","l","o","p","e","_","p","e","r","c","e","n","t">>
    /\ call.operator = <<"<","=">>
    /\ call.value = <<"8">>
    /\ call.ret = FALSE

\* C10 as stated: a condition on a field missing from the parcel is false
\* for every operator and every literal.
C10_MissingFieldIsFalse ==
    (call.op = "check_condition" /\ call.field \notin DOMAIN call.parcel)
        => call.ret = FALSE

\* C10 amended: a condition on a missing field is false for the numeric
\* operators and for unknown operators; for in, == and != the missing value
\* is compared as the string 'None': in holds iff a trimmed token is 'None',
\* == iff the literal is 'None', != iff the literal is not 'None'.
C10_MissingFieldComparesAsNone ==
    (call.op = "check_condition" /\ call.field \notin DOMAIN call.parcel)
        => LET op == lower(strip(call.operator))
               tokens == split(call.value, ",")
           IN call.ret =
                CASE op = <<"i","n">> ->
                        \E i \in 1..Len(tokens) : strip(tokens[i]) = <<"N","o","n","e">>
                  [] op = <<"=","=">> -> call.value = <<"N","o","n","e">>
                  [] op = <<"!","=">> -> call.value # <<"N","o","n","e">>
                  [] OTHER -> FALSE

\* a missing field under != with a literal other than 'None': true
C10_Witness ==
    /\ call.op = "check_condition"
    /\ call.field \notin DOMAIN call.parcel
    /\ lower(strip(call.operator)) = <<"!","=">>
    /\ call.value # <<"N","o","n","e">>
    /\ call.ret = TRUE

\* C11: with operator 'in', check_condition is true iff the string form of
\* the parcel value (untrimmed, case kept) equals one of the comma-separated
\* tokens of the literal after each token is trimmed: 'cropland' matches
\* 'cropland, pasture', 'Cropland' does not.
C11_InMatchesTrimmedTokenExactly ==
    (call.op = "check_condition" /\ lower(strip(call.operator)) = <<"i","n">>)
        => LET v == dict_get(call.parcel, call.field)
               tokens == split(call.value, ",")
           IN /\ call.ret = (\E i \in 1..Len(tokens) : strip(tokens[i]) = str(v))
              /\ (v = PyStr(<<"C","r","o","p","l","a","n","d">>) /\ call.value = <<"c","r","o",
                          "p","l","a","n","d",","," ","p","a","s","t","u","r","e">>)
                    => call.ret = FALSE
              /\ (v = PyStr(<<" ","p","a","s","t","u","r","e">>) /\ call.value = <<"c","r","o",
                          "p","l","a","n","d",","," ","p","a","s","t","u","r","e">>)
                    => call.ret = FALSE

\* the parcel value 8.0001 found among the tokens of ' 8.0001 ,9'
C11_Witness ==
    /\ call.op = "check_condition"
    /\ lower(strip(call.operator)) = <<"i","n">>
    /\ call.field \in DOMAIN call.parcel
    /\ call.value = <<" ","8",".","0","0","0","1"," ",",","9">>
    /\ call.ret = TRUE

C13_BetweenIsInclusive ==
    (/\ call.op = "check_condition"
     /\ lower(strip(call.operator)) = <<"b","e","t","w","e","e","n">>
     /\ float(dict_get(call.parcel, call.field)).ok
     /\ ~BadNumericLiteral(<<"b","e","t","w","e","e","n">>, call.value))
        => LET x == float(dict_get(call.parcel, call.field)).num
               parts == split(call.value, ",")
               lo == float_of_str(parts[1]).num
               hi == float_of_str(parts[2]).num
           IN call.ret = ((NumLt(lo, x) \/ lo = x) /\ (NumLt(x, hi) \/ x = hi))

\* a field equal to max passes: 8.0 between '2,8'
C13_Witness ==
    /\ call.op = "check_condition"
    /\ lower(strip(call.operator)) = <<"b","e","t","w","e","e","n">>
    /\ dict_get(call.parcel, call.field) = PyFloat(F(80))
    /\ call.value = <<"2",",","8">>
    /\ call.ret = TRUE

\* C14: the result for an operator string is the result for its trimmed,
\* lowercased form.
C14_OperatorCaseAndSpaceIgnored ==
    call.op = "check_condition"
        => call.ret = check_condition(call.parcel, call.field,
                                      lower(strip(call.operator)), call.value)

\* ' IN ' behaves as 'in' and matches
C14_Witness ==
    /\ call.op = "check_condition"
    /\ call.operator = <<" ","I","N"," ">>
    /\ call.ret = TRUE

\* the labels of a frame as the builder compares them
NormalLabels(df) ==
    {lower(strip(str(df.columns[j]))) : j \in 1..Len(df.columns)}

\* the cell of row i in the column with the given (normalised) label
RawCell(df, i, name) ==
    df.rows[i][CHOOSE j \in 1..Len(df.columns) :
                   lower(strip(str(df.columns[j]))) = name]

\* the text of a cell as the rule sheet shows it: nothing for a blank cell
ShownText(cell) == IF cell = (PyFloat(NaN)) THEN << >> ELSE strip(str(cell))

\* row i has a practice code, a field name and an operator
CompleteRow(df, i) ==
    /\ ShownText(RawCell(df, i,
                <<"c","r","p","_","p","r","a","c","t","i","c","e","_","c","o","d",
                "e">>)) # << >>
    /\ ShownText(RawCell(df, i, <<"f","i","e","l","d","_","n","a","m","e">>)) # << >>
    /\ ShownText(RawCell(df, i, <<"o","p","e","r","a","t","o","r">>)) # << >>

RECURSIVE ConditionCount(_)
ConditionCount(rule_map) ==
    IF rule_map = << >> THEN 0
    ELSE Len(Head(rule_map).conditions) + ConditionCount(Tail(rule_map))

\* C15: build_crp_rule_map returns an empty map when the input is None or
\* one of the four required columns is absent after the labels are trimmed
\* and lowercased; labels differing only by case or surrounding whitespace
\* count as present.
C15_MissingColumnGivesEmptyMap ==
    call.op = "build_crp_rule_map" =>
        /\ (call.df.none \/ ~(required \subseteq NormalLabels(call.df)))
              => call.ret = << >>
        /\ (/\ ~call.df.none
            /\ required \subseteq NormalLabels(call.df)
            /\ \E i \in 1..Len(call.df.rows) : CompleteRow(call.df, i))
              => call.ret # << >>

\* a sheet without the value column, holding a row that is otherwise complete
C15_Witness ==
    /\ call.op = "build_crp_rule_map"
    /\ ~call.df.none
    /\ NormalLabels(call.df) = required \ {<<"v","a","l","u","e">>}
    /\ \E i \in 1..Len(call.df.rows) : CompleteRow(call.df, i)
    /\ call.ret = << >>

\* C16: every row whose practice code, field name or operator is missing or
\* empty after trimming (a blank cell included) adds nothing to the map, and
\* every complete row is loaded, whatever its value: the map holds as many
\* conditions as the sheet has complete rows.
C16_IncompleteRowsDropped ==
    (/\ call.op = "build_crp_rule_map"
     /\ ~call.df.none
     /\ required \subseteq NormalLabels(call.df))
        => ConditionCount(call.ret) =
              Cardinality({i \in 1..Len(call.df.rows) : CompleteRow(call.df, i)})

\* C17: in every map build_crp_rule_map returns, each key has a non-empty
\* list of conditions, each with a non-empty field and a non-empty operator.
C17_KeysHaveWellFormedConditions ==
    call.op = "build_crp_rule_map" =>
        \A k \in 1..Len(call.ret) :
            /\ call.ret[k].conditions # << >>
            /\ \A j \in 1..Len(call.ret[k].conditions) :
                  /\ call.ret[k].conditions[j].field # << >>
                  /\ call.ret[k].conditions[j].operator # << >>

\* a map with two keys built from a sheet that also held a row whose field
\* name is only whitespace
C17_Witness ==
    /\ call.op = "build_crp_rule_map"
    /\ Len(call.ret) = 2
    /\ \E i \in 1..Len(call.df.rows) :
          /\ required \subseteq NormalLabels(call.df)
          /\ RawCell(call.df, i, <<"f","i","e","l","d","_","n","a","m","e">>) = PyStr(<<" ">>)

\* the condition the builder makes of row i
RowCondition(df, i) ==
    [field |-> strip(str(RawCell(df, i, <<"f","i","e","l","d","_","n","a","m","e">>))),
     operator |-> strip(str(RawCell(df, i, <<"o","p","e","r","a","t","o","r">>))),
     value |-> strip(str(RawCell(df, i, <<"v","a","l","u","e">>)))]

\* row i is retained: its three texts are non-empty
RetainedRow(df, i) ==
    /\ strip(str(RawCell(df, i,
                <<"c","r","p","_","p","r","a","c","t","i","c","e","_","c","o","d",
                "e">>))) # << >>
    /\ RowCondition(df, i).field # << >>
    /\ RowCondition(df, i).operator # << >>

\* the conditions of the retained rows i..Len(rows) with the given code
RECURSIVE RetainedConditions(_, _, _)
RetainedConditions(df, i, code) ==
    IF i > Len(df.rows) THEN << >>
    ELSE (IF /\ RetainedRow(df, i)
             /\ strip(str(RawCell(df, i,
                         <<"c","r","p","_","p","r","a","c","t","i","c","e","_","c","o","d",
                         "e">>))) = code
          THEN <<RowCondition(df, i)>> ELSE << >>)
         \o RetainedConditions(df, i + 1, code)

\* C18: for each practice code of the map, its conditions are exactly the
\* retained rows with that code, in the order of the rows.
C18_RowOrderPreserved ==
    (/\ call.op = "build_crp_rule_map"
     /\ ~call.df.none
     /\ required \subseteq NormalLabels(call.df))
        => /\ \A k \in 1..Len(call.ret) :
                 call.ret[k].conditions =
                    RetainedConditions(call.df, 1, call.ret[k].code)
           /\ \A i \in 1..Len(call.df.rows) :
                 RetainedRow(call.df, i) =>
                    \E k \in 1..Len(call.ret) :
                        call.ret[k].code =
                            strip(str(RawCell(call.df, i,
                                        <<"c","r","p","_","p","r","a","c","t","i","c","e","_",
                                        "c","o","d","e">>)))

\* rows of one code around a row of another: the code keeps its two
\* different conditions in row order
C18_Witness ==
    /\ call.op = "build_crp_rule_map"
    /\ Len(call.df.rows) = 3
    /\ Len(call.ret) = 2
    /\ Len(call.ret[1].conditions) = 2
    /\ call.ret[1].conditions[1] # call.ret[1].conditions[2]
    /\ call.ret[1].conditions[1] = RowCondition(call.df, 1)
    /\ call.ret[1].conditions[2] = RowCondition(call.df, 3)

CompleteMaps == {<< >>, build_crp_rule_map(rule_sheet.df)}

\* C20: in every interleaving of a building caller and readers, the cache
\* is None or a fully built map, and no caller is handed a map holding
\* only part of the rule rows.
C20_CacheNeverPartial ==
    /\ _crp_rule_map.is_none \/ _crp_rule_map.map \in CompleteMaps
    /\ \A t \in Threads :
          threads[t].pc = "done" => threads[t].ret \in CompleteMaps

\* one thread is inside the row loop with some rows added and others to
\* come, while another tests the cache and finds it None
C20_Witness ==
    \E t, u \in Threads :
        /\ threads[t].pc = "rows"
        /\ threads[t].rule_map # << >>
        /\ threads[t].rule_map # build_crp_rule_map(rule_sheet.df)
        /\ threads[u].pc = "check"
        /\ _crp_rule_map.is_none

\* C21: when the rule source cannot be read, get_crp_rule_map returns an
\* empty map (and caches it) without raising, and filter_crp_by_gis drops
\* only what the dry-upland wetland heuristic drops.
C21_UnreadableSourceDisablesRules ==
    [][(/\ _crp_rule_map.is_none
        /\ call'.op = "filter_crp_by_gis"
        /\ call'.fetched
        /\ ~rule_sheet.readable \/ ~call'.io_ok)
       => (/\ call'.rule_map = << >>
           /\ _crp_rule_map' = cache_of(<< >>)
           /\ call'.ret.practices =
                 SelectSeq(call'.crp.practices,
                           LAMBDA p : ~HeuristicDrop(p, call'.gis)))]_vars

\* the sheet is not there, the filter has fetched the rule map and every
\* quoted practice is returned on land the heuristic leaves alone
C21_Witness ==
    /\ call.op = "filter_crp_by_gis"
    /\ call.fetched
    /\ ~rule_sheet.readable
    /\ call.rule_map = << >>
    /\ _crp_rule_map = cache_of(<< >>)
    /\ Len(call.crp.practices) = MaxPractices
    /\ call.ret.practices = call.crp.practices

\* C22: the parcel filter_crp_by_gis hands to the eligibility filter holds
\* state, county, acres and every attribute of the GIS record (latitude and
\* longitude included), each with the record's value.
C22_ParcelHoldsEveryGISAttribute ==
    (call.op = "filter_crp_by_gis" /\ call.fetched) =>
        LET parcel == rules_parcel(call.crp, call.gis)
            has(k, v) == k \in DOMAIN parcel /\ parcel[k] = v
        IN /\ has(<<"s","t","a","t","e">>, PyStr(call.crp.state))
           /\ has(<<"c","o","u","n","t","y">>, PyStr(call.crp.county))
           /\ has(<<"a","c","r","e","s">>, PyFloat(call.crp.acres))
           /\ has(<<"l","a","t">>, call.gis.lat)
           /\ has(<<"l","o","n">>, call.gis.lon)
           /\ has(<<"l","a","n","d","_","c","o","v","e","r">>, PyStr(call.gis.land_cover))
           /\ has(<<"s","l","o","p","e","_","p","e","r","c","e","n","t">>,
                       PyFloat(call.gis.slope_percent))
           /\ has(<<"h","y","d","r","i","c","_","p","e","r","c","e","n","t">>,
                       PyFloat(call.gis.hydric_percent))
           /\ has(<<"n","w","i","_","c","l","a","s","s">>, PyStr(call.gis.nwi_class))
           /\ has(<<"i","n","_","1","0","0","y","r","_","f","l","o","o","d","p","l","a","i",
                       "n">>, PyBool(call.gis.in_100yr_floodplain))
           /\ has(<<"d","i","s","t","a","n","c","e","_","t","o","_","s","t","r","e","a","m","_",
                       "m">>, PyFloat(call.gis.distance_to_stream_m))

\* C23: on the first call, when the sheet can be read and has the four
\* expected columns, get_crp_rule_map returns and caches the map
\* build_crp_rule_map builds from the sheet.
C23_FirstCallLoadsSheet ==
    [][(/\ _crp_rule_map.is_none
        /\ rule_sheet.readable
        /\ required \subseteq NormalLabels(rule_sheet.df)
        /\ call'.op = "filter_crp_by_gis"
        /\ call'.fetched
        /\ call'.io_ok)
       => (/\ call'.rule_map = build_crp_rule_map(rule_sheet.df)
           /\ _crp_rule_map' = cache_of(build_crp_rule_map(rule_sheet.df)))]_vars

RECURSIVE WetlandRuleOnly(_, _)
WetlandRuleOnly(practices, gis) ==
    IF practices = << >> THEN << >>
    ELSE (IF _is_wetland_like_name(Head(practices).scenario_name)
             /\ ~has_wet_signal(gis)
          THEN << >> ELSE <<Head(practices)>>)
         \o WetlandRuleOnly(Tail(practices), gis)

\* in a quote with GIS the slope rule of Programs B and C drops nothing
NoSlopeDrop ==
    /\ ~low_slope(call.gis)
    /\ ~csp_low_slope(call.gis)
    /\ call.eqip.practices = WetlandRuleOnly(call.eqip_raw.practices, call.gis)
    /\ call.csp.practices = WetlandRuleOnly(call.csp_raw.practices, call.gis)

\* C26 as stated: process_parcel_geometry returns slope_percent >= 2.0 for
\* every geometry, state and county, so in programs_quote_all_gis the
\* low-slope flag of the Program B/C filters is never true and no
\* erosion-like practice is dropped.
C26_SlopeAtLeastTwo ==
    /\ call.op = "process_parcel_geometry" =>
          NumGe(call.ret.slope_percent, Fin(2 * Scale))
    /\ call.op = "programs_quote_all_gis" =>
          NumGe(call.gis.slope_percent, Fin(2 * Scale)) /\ NoSlopeDrop

\* C26 amended: the slope process_parcel_geometry returns is never below
\* 2.0; it is a number >= 2.0 when the point is missing or its longitude is
\* finite, and nan when the longitude is nan or infinite.  Either way the
\* low-slope flag of the Program B/C filters is never true in
\* programs_quote_all_gis and no erosion-like practice is dropped.
C26_SlopeNeverBelowTwo ==
    LET never_below(gis) ==
            /\ ~NumLt(gis.slope_percent, Fin(2 * Scale))
            /\ IF gis.lon.t = "NoneType" \/ gis.lon.x.k = "fin"
               THEN NumGe(gis.slope_percent, Fin(2 * Scale))
               ELSE gis.slope_percent = NaN
    IN /\ call.op = "process_parcel_geometry" => never_below(call.ret)
       /\ call.op = "programs_quote_all_gis" =>
             never_below(call.gis) /\ NoSlopeDrop

\* a quote on land whose slope is exactly 2.0: the erosion-like practice
\* quoted under Program B is returned
C26_Witness ==
    /\ call.op = "programs_quote_all_gis"
    /\ call.gis.slope_percent = Fin(2 * Scale)
    /\ \E i \in 1..Len(call.eqip_raw.practices) :
          /\ _is_erosion_like_name(call.eqip_raw.practices[i].scenario_name)
          /\ call.eqip_raw.practices[i] \in
                {call.eqip.practices[j] : j \in 1..Len(call.eqip.practices)}

\* C27: process_parcel_geometry never returns the land cover 'developed'
\* (it is one of forest, mixed_agriculture, cropland, rangeland), so in
\* programs_quote_all_gis the developed-land short-circuit of
\* filter_crp_by_gis is never taken.
C27_NeverDeveloped ==
    LET covers == {<<"f","o","r","e","s","t">>,
                   <<"m","i","x","e","d","_","a","g","r","i","c","u","l","t","u","r","e">>,
                   <<"c","r","o","p","l","a","n","d">>,
                   <<"r","a","n","g","e","l","a","n","d">>}
    IN /\ call.op = "process_parcel_geometry" => call.ret.land_cover \in covers
       /\ call.op = "programs_quote_all_gis" =>
             /\ call.gis.land_cover \in covers
             /\ ~is_developed(call.gis)
             /\ crp_fetches_rules(call.crp_raw, call.gis)

\* a quote in a state the classifier has no case for: Program A practices
\* are quoted and the filter looks at them one by one
C27_Witness ==
    /\ call.op = "programs_quote_all_gis"
    /\ ~Contains(lower(call.state), <<"m","i","c","h","i","g","a","n">>)
    /\ ~Contains(lower(call.state), <<"t","e","x","a","s">>)
    /\ Len(call.crp_raw.practices) > 0
    /\ Len(call.crp.practices) > 0

\* C28: each GIS filter is idempotent: with the GIS attributes and the
\* cached rule map of a call unchanged, applying filter_crp_by_gis (or
\* filter_eqip_by_gis, filter_csp_by_gis) to what the call returned gives
\* that same value.
C28_FiltersIdempotent ==
    /\ call.op = "filter_crp_by_gis" =>
          filter_crp_by_gis(call.ret, call.gis, call.rule_map) = call.ret
    /\ call.op = "filter_eqip_by_gis" =>
          filter_eqip_by_gis(call.ret, call.gis) = call.ret
    /\ call.op = "filter_csp_by_gis" =>
          filter_csp_by_gis(call.ret, call.gis) = call.ret

\* the Program A filter has dropped a practice by the rules and kept one
C28_Witness ==
    /\ call.op = "filter_crp_by_gis"
    /\ call.fetched
    /\ call.rule_map # << >>
    /\ Len(call.ret.practices) > 0
    /\ Len(call.ret.practices) < Len(call.crp.practices)
    /\ \E i \in 1..Len(call.crp.practices) :
          /\ ~crp_heuristic_drops(call.crp.practices[i], call.gis)
          /\ \A j \in 1..Len(call.ret.practices) :
                call.ret.practices[j] # call.crp.practices[i]

\* C25: every literal route registered under /parcels (GET /parcels/top,
\* GET /parcels/county_stats, DELETE /parcels/reset) is dispatched to its
\* own handler and never captured by /parcels/{parcel_id}.
C25_LiteralRoutesReachTheirHandlers ==
    call.op = "dispatch" =>
        /\ (call.method = "GET" /\ call.path = <<seg_parcels, <<"t","o","p">>>>)
              => call.endpoint = "top_parcels"
        /\ (call.method = "GET" /\ call.path = <<seg_parcels,
                    <<"c","o","u","n","t","y","_","s","t","a","t","s">>>>)
              => call.endpoint = "county_stats"
        /\ (call.method = "DELETE" /\ call.path = <<seg_parcels, <<"r","e","s","e","t">>>>)
              => call.endpoint = "reset_parcels"

C30_SkippedRowsLeaveNoRecord ==
    [][call'.op = "import_parcels_csv" =>
          /\ parcels' \ parcels =
                {call'.created[i] : i \in 1..Len(call'.created)}
          /\ call'.detail = "No valid rows imported" => parcels' = parcels]_vars
====
